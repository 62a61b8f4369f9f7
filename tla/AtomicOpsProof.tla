--------------------------- MODULE AtomicOpsProof ---------------------------
(***************************************************************************)
(* For any number of threads and objects, any values and any tables: the   *)
(* spinlock excludes, and operations compiled coherently are linearizable. *)
(***************************************************************************)
EXTENDS AtomicOps, TLAPS

PrimRequest == [op : PrimOp, obj : Object, src : Value, exp : Value]

\* What a thread is doing at each point of a primitive.
ThreadInv(t) ==
    /\ pc[t] = "idle" => call[t] = NoRequest
    /\ pc[t] # "idle" =>
        /\ call[t] \in Requests
        /\ prim[t] \in PrimRequest
        /\ prim[t].obj = call[t].obj
        /\ new[t] \in Value
        /\ ret[t] = NoResult
        /\ impl[prim[t].obj][prim[t].op] # "loop"
        /\ ~Looping(t) => /\ prim[t].op = PrimOpOf(call[t].op)
                          /\ prim[t].src = call[t].src
                          /\ prim[t].exp = call[t].exp
        /\ Looping(t) => \/ prim[t].op = "load"
                         \/ /\ prim[t].op = "compare_and_swap"
                            /\ prim[t].src = Computed(call[t], prim[t].exp)
    /\ pc[t] \in {"spin", "read", "reread", "write", "unlock"} => Uses(t, "lock")
    /\ pc[t] = "read" => prim[t].op \notin {"store", "store_relaxed"}
    /\ pc[t] = "reread" => prim[t].op \in AddOp
    /\ pc[t] = "write" => prim[t].op # "load"
    /\ pc[t] \in {"reread", "write", "unlock", "finish"} =>
        reg[t] \in Value \/ prim[t].op \in {"store", "store_relaxed"}
    /\ prim[t] # NoRequest /\ prim[t].op \notin AddOp => new[t] = prim[t].src
    /\ pc[t] = "write" /\ prim[t].op = "compare_and_swap" => reg[t] = prim[t].exp

IInv ==
    /\ TypeOK
    /\ impl \in Impls
    /\ \A t \in Thread : ThreadInv(t)
    /\ MutualExclusion

-----------------------------------------------------------------------------
LEMMA RequestType ==
    ASSUME NEW r \in Requests
    PROVE  /\ r # NoRequest
           /\ r.op \in Obj!Op /\ r.obj \in Object
           /\ r.src \in Value /\ r.exp \in Value
           /\ r = [op |-> r.op, obj |-> r.obj, src |-> r.src, exp |-> r.exp]
    BY RequestsAssumption DEF Obj!Request

\* PrimOp and Obj!Op differ by compare_exchange only.
LEMMA PrimOpOfType ==
    ASSUME NEW op \in Obj!Op
    PROVE  /\ PrimOpOf(op) \in PrimOp
           /\ PrimOpOf(op) = "load" <=> op = "load"
           /\ PrimOpOf(op) \in {"store", "store_relaxed"}
                <=> op \in {"store", "store_relaxed"}
           /\ PrimOpOf(op) \in AddOp <=> op \in AddOp
    BY DEF PrimOpOf, PrimOp, AddOp, Obj!Op, Obj!StoreOp, Obj!CasOp, Obj!ArithOp

LEMMA ComputedType ==
    ASSUME NEW op \in Obj!Op, NEW src \in Value, NEW exp \in Value,
           NEW obj, NEW v \in Value
    PROVE  Computed([op |-> op, obj |-> obj, src |-> src, exp |-> exp], v) \in Value
    BY ArithAssumption
    DEF Computed, Obj!Op, Obj!StoreOp, Obj!CasOp, Obj!ArithOp

\* The code computes what is meant.
LEMMA ComputedIsMeant ==
    ASSUME NEW r \in Requests, NEW v \in Value
    PROVE  /\ Computed(r, v) \in Value
           /\ Computed(r, v) = Obj!NewValue(r, v)
<1>1. r.op \in Obj!Op /\ r.src \in Value /\ r.exp \in Value
    BY RequestType
<1>2. QED
    BY <1>1, ArithAssumption
    DEF Computed, Obj!NewValue, Obj!Op, Obj!StoreOp, Obj!CasOp, Obj!ArithOp

\* The same of a primitive, whose operation is one of PrimOp.
LEMMA PrimComputedType ==
    ASSUME NEW p \in PrimRequest, NEW v \in Value
    PROVE  Computed(p, v) \in Value
    BY ArithAssumption
    DEF PrimRequest, PrimOp, Computed, Obj!ArithOp

LEMMA LoopRequestType ==
    ASSUME NEW r \in Requests, NEW v \in Value
    PROVE  /\ LoadOf(r) \in PrimRequest
           /\ LoadOf(r).op = "load" /\ LoadOf(r).obj = r.obj
           /\ LoadOf(r).src = r.src
           /\ SwapOf(r, v) \in PrimRequest
           /\ SwapOf(r, v).op = "compare_and_swap" /\ SwapOf(r, v).obj = r.obj
           /\ SwapOf(r, v).src = Computed(r, v) /\ SwapOf(r, v).exp = v
<1> DEFINE c == Computed(r, v)
<1>1. c \in Value
    BY ComputedIsMeant
<1>2. r \in [op : Obj!Op, obj : Object, src : Value, exp : Value]
    BY RequestsAssumption DEF Obj!Request
<1>3. LoadOf(r) = [op |-> "load", obj |-> r.obj, src |-> r.src, exp |-> r.exp]
    BY <1>2 DEF LoadOf
<1>4. SwapOf(r, v) = [op |-> "compare_and_swap", obj |-> r.obj, src |-> c, exp |-> v]
    BY DEF SwapOf
<1>5. {"load", "compare_and_swap"} \subseteq PrimOp
    BY DEF PrimOp
<1> HIDE DEF c
<1>6. QED
    BY <1>1, <1>2, <1>3, <1>4, <1>5 DEF PrimRequest, c

LEMMA PrimRequestFacts ==
    ASSUME NEW p \in PrimRequest
    PROVE  /\ p # NoRequest
           /\ p.op \in PrimOp /\ p.obj \in Object
           /\ p.src \in Value /\ p.exp \in Value
    BY RequestsAssumption
    DEF PrimRequest, PrimOp, Obj!Request, Obj!Op, Obj!StoreOp, Obj!CasOp,
        Obj!ArithOp

-----------------------------------------------------------------------------
LEMMA InitInv == Init => IInv
<1> SUFFICES ASSUME Init PROVE IInv
    OBVIOUS
<1>1. TypeOK
    BY ImplsAssumption DEF Init, TypeOK
<1>2. \A t \in Thread : ThreadInv(t)
    BY DEF Init, ThreadInv
<1>3. MutualExclusion
    BY DEF Init, MutualExclusion, InSection
<1>4. QED
    BY <1>1, <1>2, <1>3 DEF IInv, Init

\* What an action of t does to the variables of the other threads, and to t's
\* call, is all that the invariant of another thread depends on.
LEMMA OthersInv ==
    ASSUME IInv, NEW t \in Thread, NEW u \in Thread, u # t, impl' = impl,
           pc'[u] = pc[u], call'[u] = call[u], prim'[u] = prim[u],
           reg'[u] = reg[u], new'[u] = new[u], ret'[u] = ret[u]
    PROVE  ThreadInv(u)'
    BY DEF IInv, ThreadInv, Looping, Uses, Dst

\* A primitive that is under way works on an object of its call, and is
\* compiled to one of the mechanisms.
LEMMA PrimOfCall ==
    ASSUME IInv, NEW t \in Thread, pc[t] # "idle"
    PROVE  /\ call[t] \in Requests /\ call[t] # NoRequest
           /\ prim[t] \in PrimRequest /\ prim[t] # NoRequest
           /\ Dst(t) \in Object
           /\ mem[Dst(t)] \in Value
<1>1. call[t] \in Requests /\ prim[t] \in PrimRequest
    BY DEF IInv, ThreadInv
<1>2. QED
    BY <1>1, RequestType, PrimRequestFacts DEF Dst, IInv, TypeOK

LEMMA InvokeInv ==
    ASSUME IInv, NEW t \in Thread, NEW r \in Requests, Invoke(t, r)
    PROVE  IInv'
<1> DEFINE p == IF impl[r.obj][PrimOpOf(r.op)] = "loop"
                THEN LoadOf(r) ELSE [r EXCEPT !.op = PrimOpOf(r.op)]
<1>1. /\ pc[t] = "idle" /\ impl' = impl /\ mem' = mem /\ lock' = lock
      /\ call' = [call EXCEPT ![t] = r]
      /\ ret' = [ret EXCEPT ![t] = NoResult]
      /\ prim' = [prim EXCEPT ![t] = p]
      /\ new' = [new EXCEPT ![t] = p.src]
      /\ reg' = [reg EXCEPT ![t] = NoResult]
      /\ pc' = [pc EXCEPT ![t] = "start"]
    BY DEF Invoke, Enter
<1>2. TypeOK
    BY DEF IInv
<1>3. /\ r \in [op : Obj!Op, obj : Object, src : Value, exp : Value]
      /\ r # NoRequest
    BY RequestType, RequestsAssumption DEF Obj!Request
<1>4. PrimOpOf(r.op) \in PrimOp
    BY <1>3, PrimOpOfType
<1>5. /\ impl[r.obj]["load"] # "loop"
      /\ impl \in [Object -> [PrimOp -> Mechanism]]
    BY <1>2, <1>3, ImplsAssumption DEF IInv, TypeOK
<1>6. /\ p \in PrimRequest
      /\ p.obj = r.obj /\ p.src = r.src
      /\ impl[p.obj][p.op] # "loop"
      /\ IF impl[r.obj][PrimOpOf(r.op)] = "loop"
         THEN p.op = "load"
         ELSE p.op = PrimOpOf(r.op) /\ p.exp = r.exp
    <2>1. CASE impl[r.obj][PrimOpOf(r.op)] = "loop"
        BY <2>1, <1>3, <1>5 DEF LoadOf, PrimRequest, PrimOp
    <2>2. CASE impl[r.obj][PrimOpOf(r.op)] # "loop"
        BY <2>2, <1>3, <1>4 DEF PrimRequest
    <2>3. QED
        BY <2>1, <2>2
<1> HIDE DEF p
<1>7. TypeOK'
    BY <1>1, <1>2, <1>3, <1>6, PrimRequestFacts DEF TypeOK, PrimRequest
<1>8. /\ pc'[t] = "start" /\ call'[t] = r /\ prim'[t] = p
      /\ new'[t] = r.src /\ ret'[t] = NoResult
    BY <1>1, <1>2, <1>6 DEF TypeOK
<1>9. ThreadInv(t)'
    BY <1>1, <1>3, <1>6, <1>8 DEF ThreadInv, Looping, Uses, Dst
<1>10. ASSUME NEW u \in Thread, u # t PROVE ThreadInv(u)'
    BY <1>1, <1>2, <1>10, OthersInv DEF TypeOK
<1>11. MutualExclusion'
    BY <1>1, <1>2 DEF IInv, TypeOK, MutualExclusion, InSection
<1>12. QED
    BY <1>1, <1>7, <1>9, <1>10, <1>11 DEF IInv

LEMMA NativeInv ==
    ASSUME IInv, NEW t \in Thread, Native(t)
    PROVE  IInv'
<1>1. TypeOK /\ pc[t] # "idle"
    BY DEF IInv, Native
<1>2. /\ impl' = impl
      /\ \A u \in Thread : u # t =>
            /\ pc'[u] = pc[u] /\ call'[u] = call[u] /\ prim'[u] = prim[u]
            /\ reg'[u] = reg[u] /\ new'[u] = new[u] /\ ret'[u] = ret[u]
    BY <1>1 DEF Native, Enter, Goto, TypeOK
<1>3. TypeOK'
    BY <1>1, <1>2, PrimOfCall, PrimComputedType DEF Native, Goto, TypeOK, Dst
<1>4. ThreadInv(t)'
    BY <1>1, <1>2, PrimOfCall DEF Native, Goto, TypeOK, IInv, ThreadInv, Looping, Uses, Dst, Computed
<1>5. ASSUME NEW u \in Thread, u # t PROVE ThreadInv(u)'
    BY <1>2, <1>5, OthersInv
<1>6. MutualExclusion'
    BY <1>1, <1>2 DEF Native, Goto, TypeOK, IInv, MutualExclusion, InSection
<1>7. QED
    BY <1>2, <1>3, <1>4, <1>5, <1>6 DEF IInv

LEMMA TestAndSetInv ==
    ASSUME IInv, NEW t \in Thread, TestAndSet(t)
    PROVE  IInv'
<1>1. TypeOK /\ pc[t] # "idle"
    BY DEF IInv, TestAndSet
<1>2. /\ impl' = impl
      /\ \A u \in Thread : u # t =>
            /\ pc'[u] = pc[u] /\ call'[u] = call[u] /\ prim'[u] = prim[u]
            /\ reg'[u] = reg[u] /\ new'[u] = new[u] /\ ret'[u] = ret[u]
    BY <1>1 DEF TestAndSet, Enter, Goto, TypeOK
<1>3. TypeOK'
    BY <1>1, <1>2, PrimOfCall DEF TestAndSet, Goto, TypeOK
<1>4. ThreadInv(t)'
    BY <1>1, <1>2, PrimOfCall DEF TestAndSet, Goto, TypeOK, IInv, ThreadInv, Looping, Uses, Dst, Stores
<1>5. ASSUME NEW u \in Thread, u # t PROVE ThreadInv(u)'
    BY <1>2, <1>5, OthersInv
<1>6. MutualExclusion'
    BY <1>1, <1>2 DEF TestAndSet, Goto, TypeOK, IInv, MutualExclusion, InSection
<1>7. QED
    BY <1>2, <1>3, <1>4, <1>5, <1>6 DEF IInv

LEMMA SpinInv ==
    ASSUME IInv, NEW t \in Thread, Spin(t)
    PROVE  IInv'
<1>1. TypeOK /\ pc[t] # "idle"
    BY DEF IInv, Spin
<1>2. /\ impl' = impl
      /\ \A u \in Thread : u # t =>
            /\ pc'[u] = pc[u] /\ call'[u] = call[u] /\ prim'[u] = prim[u]
            /\ reg'[u] = reg[u] /\ new'[u] = new[u] /\ ret'[u] = ret[u]
    BY <1>1 DEF Spin, Enter, Goto, TypeOK
<1>3. TypeOK'
    BY <1>1, <1>2, PrimOfCall DEF Spin, Goto, TypeOK
<1>4. ThreadInv(t)'
    BY <1>1, <1>2, PrimOfCall DEF Spin, Goto, TypeOK, IInv, ThreadInv, Looping, Uses, Dst
<1>5. ASSUME NEW u \in Thread, u # t PROVE ThreadInv(u)'
    BY <1>2, <1>5, OthersInv
<1>6. MutualExclusion'
    BY <1>1, <1>2 DEF Spin, Goto, TypeOK, IInv, MutualExclusion, InSection
<1>7. QED
    BY <1>2, <1>3, <1>4, <1>5, <1>6 DEF IInv

LEMMA ReadInv ==
    ASSUME IInv, NEW t \in Thread, Read(t)
    PROVE  IInv'
<1>1. TypeOK /\ pc[t] # "idle"
    BY DEF IInv, Read
<1>2. /\ impl' = impl
      /\ \A u \in Thread : u # t =>
            /\ pc'[u] = pc[u] /\ call'[u] = call[u] /\ prim'[u] = prim[u]
            /\ reg'[u] = reg[u] /\ new'[u] = new[u] /\ ret'[u] = ret[u]
    BY <1>1 DEF Read, Enter, Goto, TypeOK
<1>3. TypeOK'
    BY <1>1, <1>2, PrimOfCall DEF Read, Goto, TypeOK
<1>4. ThreadInv(t)'
    BY SMTT(20), <1>1, <1>2, PrimOfCall DEF Read, Goto, TypeOK, IInv, ThreadInv, Looping, Uses, Dst, ReadsOnly, AddOp
<1>5. ASSUME NEW u \in Thread, u # t PROVE ThreadInv(u)'
    BY <1>2, <1>5, OthersInv
<1>6. MutualExclusion'
    BY SMTT(20), <1>1, <1>2 DEF Read, Goto, TypeOK, IInv, MutualExclusion, InSection
<1>7. QED
    BY <1>2, <1>3, <1>4, <1>5, <1>6 DEF IInv

LEMMA UnlockInv ==
    ASSUME IInv, NEW t \in Thread, Unlock(t)
    PROVE  IInv'
<1>1. TypeOK /\ pc[t] # "idle"
    BY DEF IInv, Unlock
<1>2. /\ impl' = impl
      /\ \A u \in Thread : u # t =>
            /\ pc'[u] = pc[u] /\ call'[u] = call[u] /\ prim'[u] = prim[u]
            /\ reg'[u] = reg[u] /\ new'[u] = new[u] /\ ret'[u] = ret[u]
    BY <1>1 DEF Unlock, Enter, Goto, TypeOK
<1>3. TypeOK'
    BY <1>1, <1>2, PrimOfCall DEF Unlock, Goto, TypeOK
<1>4. ThreadInv(t)'
    BY <1>1, <1>2, PrimOfCall DEF Unlock, Goto, TypeOK, IInv, ThreadInv, Looping, Uses, Dst
<1>5. ASSUME NEW u \in Thread, u # t PROVE ThreadInv(u)'
    BY <1>2, <1>5, OthersInv
<1>6. MutualExclusion'
    BY <1>1, <1>2 DEF Unlock, Goto, TypeOK, IInv, MutualExclusion, InSection
<1>7. QED
    BY <1>2, <1>3, <1>4, <1>5, <1>6 DEF IInv

LEMMA RereadInv ==
    ASSUME IInv, NEW t \in Thread, Reread(t)
    PROVE  IInv'
<1>1. TypeOK /\ pc[t] # "idle"
    BY DEF IInv, Reread
<1>2. /\ impl' = impl
      /\ \A u \in Thread : u # t =>
            /\ pc'[u] = pc[u] /\ call'[u] = call[u] /\ prim'[u] = prim[u]
            /\ reg'[u] = reg[u] /\ new'[u] = new[u] /\ ret'[u] = ret[u]
    BY <1>1 DEF Reread, Enter, Goto, TypeOK
<1>3. TypeOK'
    BY <1>1, <1>2, PrimOfCall, PrimComputedType DEF Reread, Goto, TypeOK, Dst
<1>4. ThreadInv(t)'
    BY SMTT(20), <1>1, <1>2, <1>3, PrimOfCall, PrimComputedType DEF Reread, Goto, TypeOK, IInv, ThreadInv, Looping, Uses, Dst, AddOp
<1>5. ASSUME NEW u \in Thread, u # t PROVE ThreadInv(u)'
    BY <1>2, <1>5, OthersInv
<1>6. MutualExclusion'
    BY <1>1, <1>2 DEF Reread, Goto, TypeOK, IInv, MutualExclusion, InSection
<1>7. QED
    BY <1>2, <1>3, <1>4, <1>5, <1>6 DEF IInv

LEMMA WriteInv ==
    ASSUME IInv, NEW t \in Thread, Write(t)
    PROVE  IInv'
<1>1. TypeOK /\ pc[t] # "idle"
    BY DEF IInv, Write
<1>2. /\ impl' = impl
      /\ \A u \in Thread : u # t =>
            /\ pc'[u] = pc[u] /\ call'[u] = call[u] /\ prim'[u] = prim[u]
            /\ reg'[u] = reg[u] /\ new'[u] = new[u] /\ ret'[u] = ret[u]
    BY <1>1 DEF Write, Enter, Goto, TypeOK
<1>3. TypeOK'
    BY <1>1, <1>2, PrimOfCall DEF Write, Goto, TypeOK, IInv, ThreadInv, Dst
<1>4. ThreadInv(t)'
    BY <1>1, <1>2, PrimOfCall DEF Write, Goto, TypeOK, IInv, ThreadInv, Looping, Uses, Dst
<1>5. ASSUME NEW u \in Thread, u # t PROVE ThreadInv(u)'
    BY <1>2, <1>5, OthersInv
<1>6. MutualExclusion'
    BY <1>1, <1>2 DEF Write, Goto, TypeOK, IInv, MutualExclusion, InSection
<1>7. QED
    BY <1>2, <1>3, <1>4, <1>5, <1>6 DEF IInv

LEMMA TrySwapInv ==
    ASSUME IInv, NEW t \in Thread, TrySwap(t)
    PROVE  IInv'
<1>1. TypeOK /\ pc[t] # "idle"
    BY DEF IInv, TrySwap
<1>2. /\ impl' = impl
      /\ \A u \in Thread : u # t =>
            /\ pc'[u] = pc[u] /\ call'[u] = call[u] /\ prim'[u] = prim[u]
            /\ reg'[u] = reg[u] /\ new'[u] = new[u] /\ ret'[u] = ret[u]
    BY <1>1 DEF TrySwap, Enter, Goto, TypeOK
<1>3. TypeOK'
    BY <1>1, <1>2, PrimOfCall, LoopRequestType, PrimRequestFacts DEF TrySwap, Enter, TypeOK, IInv, ThreadInv, PrimRequest
<1>4. ThreadInv(t)'
    <2>1. /\ call[t] \in Requests /\ reg[t] \in Value /\ ret[t] = NoResult
          /\ call'[t] = call[t] /\ ret'[t] = ret[t] /\ pc'[t] = "start"
          /\ prim'[t] = SwapOf(call[t], reg[t])
          /\ new'[t] = SwapOf(call[t], reg[t]).src
        BY <1>1 DEF TrySwap, Enter, TypeOK, IInv, ThreadInv
    <2>2. impl[call[t].obj]["compare_and_swap"] # "loop"
        BY <2>1, RequestType, ImplsAssumption DEF IInv
    <2>3. QED
        BY <1>2, <2>1, <2>2, LoopRequestType, PrimRequestFacts, RequestType
        DEF ThreadInv, Looping, TrySwap
<1>5. ASSUME NEW u \in Thread, u # t PROVE ThreadInv(u)'
    BY <1>2, <1>5, OthersInv
<1>6. MutualExclusion'
    BY <1>1, <1>2 DEF TrySwap, Enter, Goto, TypeOK, IInv, MutualExclusion, InSection
<1>7. QED
    BY <1>2, <1>3, <1>4, <1>5, <1>6 DEF IInv

LEMMA RetryInv ==
    ASSUME IInv, NEW t \in Thread, Retry(t)
    PROVE  IInv'
<1>1. TypeOK /\ pc[t] # "idle"
    BY DEF IInv, Retry
<1>2. /\ impl' = impl
      /\ \A u \in Thread : u # t =>
            /\ pc'[u] = pc[u] /\ call'[u] = call[u] /\ prim'[u] = prim[u]
            /\ reg'[u] = reg[u] /\ new'[u] = new[u] /\ ret'[u] = ret[u]
    BY <1>1 DEF Retry, Enter, Goto, TypeOK
<1>3. TypeOK'
    BY <1>1, <1>2, PrimOfCall, LoopRequestType, PrimRequestFacts DEF Retry, Enter, TypeOK, IInv, ThreadInv, PrimRequest
<1>4. ThreadInv(t)'
    <2>1. /\ call[t] \in Requests /\ reg[t] \in Value /\ ret[t] = NoResult
          /\ call'[t] = call[t] /\ ret'[t] = ret[t] /\ pc'[t] = "start"
          /\ prim'[t] = LoadOf(call[t])
          /\ new'[t] = LoadOf(call[t]).src
        BY <1>1 DEF Retry, Enter, TypeOK, IInv, ThreadInv
    <2>2. impl[call[t].obj]["load"] # "loop"
        BY <2>1, RequestType, ImplsAssumption DEF IInv
    <2>3. QED
        BY <1>2, <2>1, <2>2, LoopRequestType, PrimRequestFacts, RequestType
        DEF ThreadInv, Looping, Retry
<1>5. ASSUME NEW u \in Thread, u # t PROVE ThreadInv(u)'
    BY <1>2, <1>5, OthersInv
<1>6. MutualExclusion'
    BY <1>1, <1>2 DEF Retry, Enter, Goto, TypeOK, IInv, MutualExclusion, InSection
<1>7. QED
    BY <1>2, <1>3, <1>4, <1>5, <1>6 DEF IInv

LEMMA OutcomeType ==
    ASSUME IInv, NEW t \in Thread, pc[t] \in {"unlock", "finish"},
           Looping(t) => Swapped(t)
    PROVE  Outcome(t) \in Obj!Result /\ Outcome(t) # NoResult
<1>1. /\ call[t] \in Requests
      /\ reg[t] \in Value \/ call[t].op \in {"store", "store_relaxed"}
    BY RequestType, PrimOpOfType DEF IInv, ThreadInv, Swapped
<1>2. call[t].src \in Value /\ call[t].exp \in Value
    BY <1>1, RequestType
<1>3. Outcome(t) \in Obj!Result
    BY <1>1, <1>2 DEF Outcome, OutcomeOf, Obj!Result
<1>4. QED
    BY <1>3, RequestsAssumption

LEMMA ReturnInv ==
    ASSUME IInv, NEW t \in Thread, Return(t)
    PROVE  IInv'
<1>1. TypeOK /\ pc[t] # "idle"
    BY DEF IInv, Return
<1>2. /\ impl' = impl
      /\ \A u \in Thread : u # t =>
            /\ pc'[u] = pc[u] /\ call'[u] = call[u] /\ prim'[u] = prim[u]
            /\ reg'[u] = reg[u] /\ new'[u] = new[u] /\ ret'[u] = ret[u]
    BY <1>1 DEF Return, Enter, Goto, TypeOK
<1>3. TypeOK'
    BY <1>1, OutcomeType DEF Return, Goto, TypeOK
<1>4. ThreadInv(t)'
    BY <1>1 DEF Return, Goto, TypeOK, ThreadInv, Looping
<1>5. ASSUME NEW u \in Thread, u # t PROVE ThreadInv(u)'
    BY <1>2, <1>5, OthersInv
<1>6. MutualExclusion'
    BY <1>1, <1>2 DEF Return, Enter, Goto, TypeOK, IInv, MutualExclusion, InSection
<1>7. QED
    BY <1>2, <1>3, <1>4, <1>5, <1>6 DEF IInv

LEMMA StepInv == IInv /\ [Next]_vars => IInv'
<1> SUFFICES ASSUME IInv, [Next]_vars PROVE IInv'
    OBVIOUS
<1>1. ASSUME NEW t \in Thread, NEW r \in Requests, Invoke(t, r) PROVE IInv'
    BY <1>1, InvokeInv
<1>2. ASSUME NEW t \in Thread, Step(t) PROVE IInv'
    BY <1>2, NativeInv, TestAndSetInv, SpinInv, ReadInv, RereadInv, WriteInv,
       UnlockInv, TrySwapInv, RetryInv, ReturnInv
    DEF Step
<1>3. CASE UNCHANGED vars
    BY <1>3 DEF vars, IInv, TypeOK, ThreadInv, MutualExclusion, InSection,
                Looping, Uses, Dst
<1>4. QED
    BY <1>1, <1>2, <1>3 DEF Next

THEOREM Invariance == Spec => []IInv
    BY InitInv, StepInv, PTL DEF Spec

\* The variables keep their types, for every table and every set of calls.
THEOREM TypeCorrect == Spec => []TypeOK
<1>1. IInv => TypeOK
    BY DEF IInv
<1>2. QED
    BY <1>1, Invariance, PTL

\* c89atomic_spinlock_lock and _unlock exclude, for any number of threads.
THEOREM SpinlockExcludes == Spec => []MutualExclusion
<1>1. IInv => MutualExclusion
    BY DEF IInv
<1>2. QED
    BY <1>1, Invariance, PTL

-----------------------------------------------------------------------------
(* Isolation of the critical sections, from coherence.                     *)

LEMMA CoherenceKept ==
    ASSUME CoherentImpls, IInv
    PROVE  CompiledCoherently
    BY DEF CoherentImpls, IInv, CompiledCoherently

\* What Computed makes of a primitive that runs under the lock and does not
\* add: the operand that is going to be stored, unless a swap fails.
LEMMA LockedComputed ==
    ASSUME IInv, NEW t \in Thread, pc[t] = "read", ~ReadsOnly(t),
           prim[t].op \notin AddOp
    PROVE  Computed(prim[t], mem[Dst(t)]) = new[t]
<1>1. /\ prim[t] \in PrimRequest /\ prim[t] # NoRequest /\ Dst(t) \in Object
      /\ impl[Dst(t)][prim[t].op] = "lock"
      /\ new[t] = prim[t].src
    BY PrimOfCall DEF IInv, ThreadInv, Uses
<1>2. prim[t].op \notin BitwiseOp
    BY <1>1, ImplsAssumption DEF IInv
<1>3. /\ prim[t].op \in PrimOp /\ prim[t].op # "load"
      /\ prim[t].op = "compare_and_swap" => mem[Dst(t)] = prim[t].exp
    BY <1>1, PrimRequestFacts DEF ReadsOnly
<1>4. QED
    BY <1>1, <1>2, <1>3 DEF Computed, PrimOp, AddOp, BitwiseOp

\* Another thread's step leaves the object of a critical section alone.
LEMMA OthersKeepOut ==
    ASSUME IInv, CompiledCoherently, NEW t \in Thread, NEW u \in Thread, u # t,
           Step(u), InSection(t)
    PROVE  mem'[Dst(t)] = mem[Dst(t)]
<1>1. /\ pc[t] # "idle" /\ Uses(t, "lock")
      /\ prim[t] \in PrimRequest /\ Dst(t) \in Object
    BY PrimOfCall DEF IInv, ThreadInv, InSection
<1>2. CASE Native(u)
    <2>1. /\ prim[u] \in PrimRequest /\ Dst(u) \in Object /\ Uses(u, "native")
          /\ mem' = [mem EXCEPT ![Dst(u)] = Computed(prim[u], @)]
        BY <1>2, PrimOfCall DEF Native
    <2>2. Dst(u) # Dst(t)
        <3>1. prim[t].op \in PrimOp /\ prim[u].op \in PrimOp
            BY <1>1, <2>1, PrimRequestFacts
        <3>2. QED
            BY <1>1, <2>1, <3>1 DEF CompiledCoherently, Coherent, Uses
    <2>3. QED
        BY <1>1, <2>1, <2>2 DEF IInv, TypeOK
<1>3. CASE Write(u)
    BY <1>3 DEF Write, IInv, MutualExclusion, InSection
<1>4. CASE TestAndSet(u) \/ Spin(u) \/ Read(u) \/ Reread(u) \/ Unlock(u)
           \/ TrySwap(u) \/ Retry(u) \/ Return(u)
    BY <1>4 DEF TestAndSet, Spin, Read, Reread, Unlock, TrySwap, Retry, Return
<1>5. QED
    BY <1>2, <1>3, <1>4 DEF Step

Isolated(t) ==
    /\ pc[t] = "reread" => reg[t] = mem[Dst(t)]
    /\ pc[t] = "write" /\ ~Stores(t)
        => /\ reg[t] = mem[Dst(t)]
           /\ new[t] = Computed(prim[t], mem[Dst(t)])

LEMMA IsolatedStep ==
    ASSUME IInv, CompiledCoherently, SectionIsolated, [Next]_vars,
           NEW t \in Thread
    PROVE  Isolated(t)'
<1>1. Isolated(t) /\ TypeOK
    BY DEF SectionIsolated, Isolated, Stores, IInv
<1>2. ASSUME NEW u \in Thread, u # t, Step(u) PROVE Isolated(t)'
    <2>1. /\ pc'[t] = pc[t] /\ prim'[t] = prim[t] /\ reg'[t] = reg[t]
          /\ new'[t] = new[t]
        BY <1>1, <1>2
        DEF Step, Native, TestAndSet, Spin, Read, Reread, Write, Unlock,
            TrySwap, Retry, Return, Enter, Goto, TypeOK
    <2>2. InSection(t) => mem'[Dst(t)] = mem[Dst(t)]
        BY <1>2, OthersKeepOut
    <2>3. QED
        BY <1>1, <2>1, <2>2 DEF Isolated, InSection, Dst, Stores
<1>3. ASSUME NEW u \in Thread, NEW r \in Requests, Invoke(u, r)
      PROVE Isolated(t)'
    <2>1. CASE u = t
        BY <1>1, <1>3, <2>1 DEF Invoke, Enter, TypeOK, Isolated
    <2>2. CASE u # t
        BY <1>1, <1>3, <2>2 DEF Invoke, Enter, TypeOK, Isolated, Dst, Stores
    <2>3. QED
        BY <2>1, <2>2
<1>4. CASE Read(t)
    <2>1. /\ mem' = mem /\ prim' = prim /\ new' = new
          /\ reg'[t] = mem[Dst(t)]
          /\ pc'[t] = "write" => ~ReadsOnly(t) /\ prim[t].op \notin AddOp
        BY <1>1, <1>4 DEF Read, Goto, TypeOK, AddOp
    <2>2. QED
        BY <1>4, <2>1, LockedComputed DEF Read, Isolated, Dst
<1>5. CASE Reread(t)
    BY <1>1, <1>5 DEF Reread, Goto, TypeOK, Isolated, Dst
<1>6. CASE TestAndSet(t)
    BY <1>1, <1>6 DEF TestAndSet, Goto, TypeOK, Isolated, Stores
<1>7. CASE Native(t) \/ Spin(t) \/ Write(t) \/ Unlock(t) \/ TrySwap(t)
           \/ Retry(t) \/ Return(t)
    BY <1>1, <1>7
    DEF Native, Spin, Write, Unlock, TrySwap, Retry, Return, Enter, Goto,
        TypeOK, Isolated
<1>8. CASE UNCHANGED vars
    BY <1>1, <1>8 DEF vars, Isolated, Dst, Stores
<1>9. QED
    BY <1>2, <1>3, <1>4, <1>5, <1>6, <1>7, <1>8 DEF Next, Step

\* What a thread has read inside the lock is what it stores over, whenever
\* the operations of every object exclude one another.
THEOREM SectionsAreIsolated ==
    ASSUME CoherentImpls
    PROVE  Spec => []SectionIsolated
<1>1. Init => SectionIsolated
    BY DEF Init, SectionIsolated
<1>2. IInv /\ SectionIsolated /\ [Next]_vars => SectionIsolated'
    <2> SUFFICES ASSUME IInv, SectionIsolated, [Next]_vars
                 PROVE  SectionIsolated'
        OBVIOUS
    <2>1. \A t \in Thread : Isolated(t)'
        BY CoherenceKept, IsolatedStep
    <2>2. QED
        BY <2>1 DEF SectionIsolated, Isolated, Stores
<1>3. QED
    BY <1>1, <1>2, Invariance, PTL DEF Spec

-----------------------------------------------------------------------------
(* Linearizability: every step is a step of AtomicObject, or none.         *)

LEMMA OutcomeIsReturned ==
    ASSUME NEW r \in Requests, NEW v, NEW result,
           r.op \notin {"store", "store_relaxed"} => result = v
    PROVE  OutcomeOf(r, result) = Obj!Returned(r, v)
    BY DEF OutcomeOf, Obj!Returned, Obj!StoreOp

\* A primitive that is no part of a loop computes what its call is meant to.
LEMMA DirectComputed ==
    ASSUME IInv, NEW t \in Thread, pc[t] # "idle", ~Looping(t), NEW v \in Value
    PROVE  Computed(prim[t], v) = Obj!NewValue(call[t], v)
<1>1. /\ call[t] \in Requests
      /\ prim[t].op = PrimOpOf(call[t].op)
      /\ prim[t].src = call[t].src /\ prim[t].exp = call[t].exp
    BY DEF IInv, ThreadInv
<1>2. Computed(call[t], v) = Obj!NewValue(call[t], v)
    BY <1>1, ComputedIsMeant
<1>3. call[t].op \in Obj!Op
    BY <1>1, RequestType
<1>4. Computed(prim[t], v) = Computed(call[t], v)
    BY <1>1, <1>3
    DEF Computed, PrimOpOf, Obj!Op, Obj!StoreOp, Obj!CasOp, Obj!ArithOp
<1>5. QED
    BY <1>2, <1>4

\* The threads that do not move keep what they have returned.
LEMMA AbsRetFrame ==
    ASSUME NEW u \in Thread, impl' = impl,
           pc'[u] = pc[u], call'[u] = call[u], prim'[u] = prim[u],
           reg'[u] = reg[u], ret'[u] = ret[u]
    PROVE  absRet'[u] = absRet[u]
    BY DEF absRet, TookEffect, Looping, Swapped, Outcome

\* The steps that are none of AtomicObject: nothing t has done counts, before
\* or after.
LEMMA Stutter ==
    ASSUME NEW t \in Thread, impl' = impl, mem' = mem, call' = call,
           \A u \in Thread : u # t =>
               /\ pc'[u] = pc[u] /\ prim'[u] = prim[u]
               /\ reg'[u] = reg[u] /\ ret'[u] = ret[u],
           absRet'[t] = absRet[t]
    PROVE  UNCHANGED <<mem, call, absRet>>
<1>1. \A u \in Thread : absRet'[u] = absRet[u]
    BY AbsRetFrame
<1>2. absRet' = absRet
    BY <1>1 DEF absRet
<1>3. QED
    BY <1>2

\* The step in which the call of t takes effect.
LEMMA Effect ==
    ASSUME IInv, NEW t \in Thread, pc[t] # "idle", ~TookEffect(t),
           impl' = impl, call' = call,
           \A u \in Thread : u # t =>
               /\ pc'[u] = pc[u] /\ prim'[u] = prim[u]
               /\ reg'[u] = reg[u] /\ ret'[u] = ret[u],
           pc'[t] \in {"unlock", "finish"}, Looping(t) => Swapped(t)',
           call[t].op \notin {"store", "store_relaxed"}
               => reg'[t] = mem[call[t].obj],
           mem' = [mem EXCEPT ![call[t].obj] =
                       Obj!NewValue(call[t], mem[call[t].obj])]
    PROVE  Obj!TakeEffect(t)
<1>1. call[t] \in Requests /\ call[t] # NoRequest /\ ret[t] = NoResult
    BY PrimOfCall DEF IInv, ThreadInv
<1>2. absRet[t] = NoResult
    BY <1>1 DEF absRet
<1>3. absRet'[t] = OutcomeOf(call[t], reg'[t])
    BY DEF absRet, TookEffect, Looping, Outcome
<1>4. OutcomeOf(call[t], reg'[t]) = Obj!Returned(call[t], mem[call[t].obj])
    BY <1>1, OutcomeIsReturned
<1>5. \A u \in Thread : u # t => absRet'[u] = absRet[u]
    BY AbsRetFrame
<1>6. absRet' = [absRet EXCEPT ![t] = Obj!Returned(call[t], mem[call[t].obj])]
    BY <1>3, <1>4, <1>5 DEF absRet
<1>7. QED
    BY <1>1, <1>2, <1>6 DEF Obj!TakeEffect

\* What every step of t that is no invocation and no return leaves alone.
LEMMA StepFrame ==
    ASSUME IInv, NEW t \in Thread, Step(t), ~Return(t)
    PROVE  /\ impl' = impl /\ call' = call /\ ret' = ret
           /\ \A u \in Thread : u # t =>
                /\ pc'[u] = pc[u] /\ prim'[u] = prim[u]
                /\ reg'[u] = reg[u] /\ ret'[u] = ret[u]
    BY DEF Step, Native, TestAndSet, Spin, Read, Reread, Write, Unlock,
           TrySwap, Retry, Enter, Goto, IInv, TypeOK

LEMMA NativeRefines ==
    ASSUME IInv, NEW t \in Thread, Native(t)
    PROVE  Obj!TakeEffect(t) \/ UNCHANGED <<mem, call, absRet>>
<1> DEFINE v == mem[Dst(t)]
<1>1. /\ pc[t] = "start" /\ ~TookEffect(t) /\ pc'[t] = "finish"
      /\ reg'[t] = v /\ prim' = prim
      /\ mem' = [mem EXCEPT ![Dst(t)] = Computed(prim[t], v)]
    BY DEF Native, Goto, TookEffect, IInv, TypeOK
<1>2. /\ call[t] \in Requests /\ prim[t] \in PrimRequest
      /\ Dst(t) = call[t].obj /\ Dst(t) \in Object /\ v \in Value
    BY <1>1, PrimOfCall DEF IInv, ThreadInv, Dst
<1>3. /\ impl' = impl /\ call' = call /\ ret' = ret
      /\ \A u \in Thread : u # t =>
            /\ pc'[u] = pc[u] /\ prim'[u] = prim[u]
            /\ reg'[u] = reg[u] /\ ret'[u] = ret[u]
    BY <1>1, StepFrame DEF Step, Return
<1>4. CASE ~Looping(t)
    <2>1. Computed(prim[t], v) = Obj!NewValue(call[t], v)
        BY <1>1, <1>2, <1>4, DirectComputed
    <2>2. QED
        BY <1>1, <1>2, <1>3, <1>4, <2>1, Effect
<1>5. CASE Looping(t) /\ prim[t].op = "compare_and_swap" /\ v = prim[t].exp
    <2>1. Computed(prim[t], v) = Obj!NewValue(call[t], v)
        BY <1>1, <1>2, <1>5, ComputedIsMeant DEF Computed, IInv, ThreadInv
    <2>2. Swapped(t)'
        BY <1>1, <1>5 DEF Swapped
    <2>3. QED
        BY <1>1, <1>2, <1>3, <2>1, <2>2, Effect
<1>6. CASE Looping(t) /\ ~(prim[t].op = "compare_and_swap" /\ v = prim[t].exp)
    <2>1. prim[t].op \in {"load", "compare_and_swap"}
        BY <1>1, <1>6 DEF IInv, ThreadInv
    <2>2. Computed(prim[t], v) = v
        BY <1>6, <2>1 DEF Computed
    <2>3. mem' = mem
        BY <1>1, <1>2, <2>2 DEF IInv, TypeOK
    <2>4. ~TookEffect(t)'
        BY <1>1, <1>3, <1>6 DEF TookEffect, Swapped, Looping
    <2>5. absRet'[t] = absRet[t]
        BY <1>1, <1>3, <2>4 DEF absRet
    <2>6. QED
        BY <1>3, <2>3, <2>5, Stutter
<1>7. QED
    BY <1>4, <1>5, <1>6

LEMMA ReadRefines ==
    ASSUME IInv, NEW t \in Thread, Read(t)
    PROVE  Obj!TakeEffect(t) \/ UNCHANGED <<mem, call, absRet>>
<1> DEFINE v == mem[Dst(t)]
<1>1. /\ pc[t] = "read" /\ ~TookEffect(t) /\ reg'[t] = v /\ prim' = prim
      /\ mem' = mem
      /\ IF ReadsOnly(t) THEN pc'[t] = "unlock" \/ prim[t].op \in AddOp
                         ELSE pc'[t] \in {"reread", "write"}
      /\ pc'[t] \in {"unlock", "reread", "write"}
      /\ pc'[t] = "unlock" => ReadsOnly(t)
    BY DEF Read, Goto, TookEffect, IInv, TypeOK
<1>2. /\ call[t] \in Requests /\ prim[t] \in PrimRequest
      /\ Dst(t) = call[t].obj /\ Dst(t) \in Object /\ v \in Value
    BY <1>1, PrimOfCall DEF IInv, ThreadInv, Dst
<1>3. /\ impl' = impl /\ call' = call /\ ret' = ret
      /\ \A u \in Thread : u # t =>
            /\ pc'[u] = pc[u] /\ prim'[u] = prim[u]
            /\ reg'[u] = reg[u] /\ ret'[u] = ret[u]
    BY <1>1, StepFrame DEF Step, Return
<1>4. CASE pc'[t] = "unlock" /\ ~Looping(t)
    <2>1. Computed(prim[t], v) = Obj!NewValue(call[t], v)
        BY <1>1, <1>2, <1>4, DirectComputed
    <2>2. Computed(prim[t], v) = v
        BY <1>1, <1>4 DEF ReadsOnly, Computed
    <2>3. mem' = [mem EXCEPT ![call[t].obj] =
                      Obj!NewValue(call[t], mem[call[t].obj])]
        BY <1>1, <1>2, <2>1, <2>2 DEF IInv, TypeOK
    <2>4. QED
        BY <1>1, <1>2, <1>3, <1>4, <2>3, Effect
<1>5. CASE pc'[t] # "unlock" \/ Looping(t)
    <2>1. ~TookEffect(t)'
        BY <1>1, <1>3, <1>5 DEF TookEffect, Swapped, Looping, ReadsOnly
    <2>2. absRet'[t] = absRet[t]
        BY <1>1, <1>3, <2>1 DEF absRet
    <2>3. QED
        BY <1>1, <1>3, <2>2, Stutter
<1>6. QED
    BY <1>4, <1>5

LEMMA WriteRefines ==
    ASSUME IInv, SectionIsolated, NEW t \in Thread, Write(t)
    PROVE  Obj!TakeEffect(t)
<1> DEFINE v == mem[Dst(t)]
<1>1. /\ pc[t] = "write" /\ ~TookEffect(t) /\ pc'[t] = "unlock"
      /\ reg' = reg /\ prim' = prim
      /\ mem' = [mem EXCEPT ![Dst(t)] = new[t]]
    BY DEF Write, Goto, TookEffect, IInv, TypeOK
<1>2. /\ call[t] \in Requests /\ prim[t] \in PrimRequest /\ prim[t] # NoRequest
      /\ Dst(t) = call[t].obj /\ Dst(t) \in Object /\ v \in Value
    BY <1>1, PrimOfCall DEF IInv, ThreadInv, Dst
<1>3. /\ impl' = impl /\ call' = call /\ ret' = ret
      /\ \A u \in Thread : u # t =>
            /\ pc'[u] = pc[u] /\ prim'[u] = prim[u]
            /\ reg'[u] = reg[u] /\ ret'[u] = ret[u]
    BY <1>1, StepFrame DEF Step, Return
<1>4. /\ new[t] = Computed(prim[t], v)
      /\ prim[t].op \notin {"store", "store_relaxed"} => reg[t] = v
    <2>1. CASE prim[t].op \in {"store", "store_relaxed"}
        BY <1>1, <1>2, <2>1 DEF IInv, ThreadInv, AddOp, Computed
    <2>2. CASE prim[t].op \notin {"store", "store_relaxed"}
        BY <1>1, <2>2 DEF SectionIsolated
    <2>3. QED
        BY <2>1, <2>2
<1>5. CASE ~Looping(t)
    <2>1. Computed(prim[t], v) = Obj!NewValue(call[t], v)
        BY <1>1, <1>2, <1>5, DirectComputed
    <2>2. call[t].op \notin {"store", "store_relaxed"} => reg'[t] = v
        BY <1>1, <1>2, <1>4, <1>5, RequestType, PrimOpOfType DEF IInv, ThreadInv
    <2>3. QED
        BY <1>1, <1>2, <1>3, <1>4, <1>5, <2>1, <2>2, Effect
<1>6. CASE Looping(t)
    <2>1. /\ prim[t].op = "compare_and_swap"
          /\ prim[t].src = Computed(call[t], prim[t].exp)
          /\ reg[t] = prim[t].exp
        BY <1>1, <1>6 DEF IInv, ThreadInv
    <2>2. v = prim[t].exp
        BY <1>4, <2>1
    <2>3. new[t] = Obj!NewValue(call[t], v)
        BY <1>2, <1>4, <2>1, <2>2, ComputedIsMeant DEF Computed
    <2>4. Swapped(t)'
        BY <1>1, <2>1 DEF Swapped
    <2>5. QED
        BY <1>1, <1>2, <1>3, <2>1, <2>2, <2>3, <2>4, Effect
<1>7. QED
    BY <1>5, <1>6

LEMMA QuietRefines ==
    ASSUME IInv, NEW t \in Thread,
           \/ TestAndSet(t) \/ Spin(t) \/ Reread(t) \/ Unlock(t)
           \/ TrySwap(t) \/ Retry(t)
    PROVE  UNCHANGED <<mem, call, absRet>>
<1>1. Step(t) /\ ~Return(t)
    BY DEF Step, Return, TestAndSet, Spin, Reread, Unlock, TrySwap, Retry,
           Looping, Swapped
<1>2. /\ impl' = impl /\ call' = call /\ ret' = ret /\ mem' = mem
      /\ \A u \in Thread : u # t =>
            /\ pc'[u] = pc[u] /\ prim'[u] = prim[u]
            /\ reg'[u] = reg[u] /\ ret'[u] = ret[u]
    BY <1>1, StepFrame DEF TestAndSet, Spin, Reread, Unlock, TrySwap, Retry
<1>3. absRet'[t] = absRet[t]
    <2>1. CASE Unlock(t)
        BY <1>2, <2>1
        DEF Unlock, Goto, IInv, TypeOK, absRet, TookEffect, Looping, Swapped,
            Outcome
    <2>2. CASE TestAndSet(t) \/ Spin(t) \/ Reread(t)
        BY <1>2, <2>2
        DEF TestAndSet, Spin, Reread, Goto, IInv, TypeOK, absRet, TookEffect
    <2>3. CASE TrySwap(t) \/ Retry(t)
        BY <1>2, <2>3
        DEF TrySwap, Retry, Enter, IInv, TypeOK, absRet, TookEffect, Swapped
    <2>4. QED
        BY <2>1, <2>2, <2>3
<1>4. QED
    BY <1>2, <1>3, Stutter

LEMMA InvokeRefines ==
    ASSUME IInv, NEW t \in Thread, NEW r \in Requests, Invoke(t, r)
    PROVE  Obj!Invoke(t, r)
<1>1. /\ pc[t] = "idle" /\ pc'[t] = "start" /\ impl' = impl /\ mem' = mem
      /\ call[t] = NoRequest /\ call' = [call EXCEPT ![t] = r]
      /\ ret'[t] = NoResult
      /\ \A u \in Thread : u # t =>
            /\ pc'[u] = pc[u] /\ prim'[u] = prim[u] /\ call'[u] = call[u]
            /\ reg'[u] = reg[u] /\ ret'[u] = ret[u]
    BY DEF Invoke, Enter, IInv, TypeOK, ThreadInv
<1>2. \A u \in Thread : u # t => absRet'[u] = absRet[u]
    BY <1>1, AbsRetFrame
<1>3. absRet'[t] = NoResult
    BY <1>1 DEF absRet, TookEffect
<1>4. absRet' = [absRet EXCEPT ![t] = NoResult]
    BY <1>2, <1>3 DEF absRet
<1>5. QED
    BY <1>1, <1>4 DEF Obj!Invoke

LEMMA ReturnRefines ==
    ASSUME IInv, NEW t \in Thread, Return(t)
    PROVE  Obj!Return(t)
<1>1. /\ pc[t] = "finish"
      /\ Looping(t) => Swapped(t)
      /\ pc'[t] = "idle" /\ impl' = impl /\ mem' = mem
      /\ call' = [call EXCEPT ![t] = NoRequest]
      /\ ret'[t] = Outcome(t)
      /\ \A u \in Thread : u # t =>
            /\ pc'[u] = pc[u] /\ prim'[u] = prim[u] /\ call'[u] = call[u]
            /\ reg'[u] = reg[u] /\ ret'[u] = ret[u]
    BY DEF Return, Goto, IInv, TypeOK
<1>2. call[t] # NoRequest
    BY <1>1, PrimOfCall
<1>3. absRet[t] = Outcome(t) /\ absRet[t] # NoResult
    BY <1>1, OutcomeType DEF absRet, TookEffect
<1>4. absRet'[t] = Outcome(t)
    BY <1>1 DEF absRet, TookEffect
<1>5. \A u \in Thread : absRet'[u] = absRet[u]
    BY <1>1, <1>3, <1>4, AbsRetFrame
<1>6. absRet' = absRet
    BY <1>5 DEF absRet
<1>7. QED
    BY <1>1, <1>2, <1>3, <1>6 DEF Obj!Return

\* Whatever the number of threads and objects, the values and the calls: if
\* the operations of every object exclude one another the same way, each call
\* takes effect at one instant and returns the value of that instant.
THEOREM Linearizability ==
    ASSUME CoherentImpls
    PROVE  Spec => Linearizable
<1>1. Init => Obj!Init
    BY DEF Init, Obj!Init, absRet, TookEffect
<1>2. IInv /\ SectionIsolated /\ [Next]_vars => [Obj!Next]_(Obj!vars)
    <2> SUFFICES ASSUME IInv, SectionIsolated, [Next]_vars
                 PROVE  [Obj!Next]_(Obj!vars)
        OBVIOUS
    <2>1. ASSUME NEW t \in Thread, NEW r \in Requests, Invoke(t, r)
          PROVE  Obj!Next
        BY <2>1, InvokeRefines DEF Obj!Next
    <2>2. ASSUME NEW t \in Thread, Step(t)
          PROVE  Obj!Next \/ UNCHANGED Obj!vars
        BY <2>2, NativeRefines, ReadRefines, WriteRefines, QuietRefines,
           ReturnRefines
        DEF Step, Obj!Next, Obj!vars
    <2>3. CASE UNCHANGED vars
        BY <2>3
        DEF vars, Obj!vars, absRet, TookEffect, Looping, Swapped, Outcome
    <2>4. QED
        BY <2>1, <2>2, <2>3 DEF Next
<1>3. QED
    BY <1>1, <1>2, Invariance, SectionsAreIsolated, PTL
    DEF Spec, Linearizable, Obj!Spec
=============================================================================
