----------------------------- MODULE AtomicOps ------------------------------
(***************************************************************************)
(* c89atomic.h as it runs: every call of the API is compiled to one of     *)
(* three mechanisms, chosen by the preprocessor for the compiler, the CPU  *)
(* and the width of the object (see CodePaths):                            *)
(*                                                                         *)
(*   "native"  one atomic instruction or intrinsic;                        *)
(*   "lock"    plain accesses between c89atomic_spinlock_lock and          *)
(*             c89atomic_spinlock_unlock of the one c89atomic_global_lock  *)
(*             that all objects of all widths share;                       *)
(*   "loop"    a load and a compare_and_swap, retried until the swap       *)
(*             succeeds, where each of the two is native or locked.        *)
(*                                                                         *)
(* A thread runs one primitive at a time: the call itself, or the load or  *)
(* the compare_and_swap of its loop. Steps of threads interleave, each     *)
(* access to shared memory being a step of its own.                        *)
(***************************************************************************)
EXTENDS CodePaths, Integers

CONSTANTS
    Thread, Object, Value, Requests, NoRequest, NoResult,
    Impls,              \* the tables [Object -> [PrimOp -> Mechanism]]
    Arith(_, _, _),     \* fetch_<op> as the code computes it
    RefArith(_, _, _)   \* fetch_<op> as it is meant

VARIABLES
    impl,   \* the table the program was compiled with
    mem,    \* *dst of every object
    lock,   \* c89atomic_global_lock
    pc,     \* where each thread is in its current primitive
    call,   \* the call each thread is in
    prim,   \* the primitive it runs for that call
    reg,    \* the result of that primitive (result, oldValue)
    new,    \* the value the primitive is about to store to *dst
    ret     \* what the last call returned

vars == <<impl, mem, lock, pc, call, prim, reg, new, ret>>

(***************************************************************************)
(* The promise. A call has taken effect when its last primitive has: the   *)
(* primitive has stored (or, for a load or a failed swap, read) and, if    *)
(* the call is a loop, it was the swap that succeeded.                     *)
(***************************************************************************)
\* compare_exchange_strong and _weak are compare_and_swap and a comparison.
\* (The spurious failures a native _weak may have are left out.)
PrimOpOf(op) == IF op = "compare_exchange" THEN "compare_and_swap" ELSE op

Looping(t) ==
    call[t] # NoRequest /\ impl[call[t].obj][PrimOpOf(call[t].op)] = "loop"

Swapped(t) == prim[t].op = "compare_and_swap" /\ reg[t] = prim[t].exp

TookEffect(t) ==
    pc[t] \in {"unlock", "finish"} /\ (Looping(t) => Swapped(t))

\* What the caller gets: compare_exchange compares the result with *expected
\* and overwrites *expected when they differ.
OutcomeOf(r, result) ==
    CASE r.op = "compare_exchange" ->
            IF result = r.exp
            THEN [ok |-> TRUE, value |-> r.exp]
            ELSE [ok |-> FALSE, value |-> result]
      [] r.op \in {"store", "store_relaxed"} -> [ok |-> TRUE, value |-> r.src]
      [] OTHER -> [ok |-> TRUE, value |-> result]

Outcome(t) == OutcomeOf(call[t], reg[t])

absRet == [t \in Thread |-> IF TookEffect(t) THEN Outcome(t) ELSE ret[t]]

Obj == INSTANCE AtomicObject WITH ret <- absRet, Arith <- RefArith

-----------------------------------------------------------------------------
ASSUME RequestsAssumption ==
    /\ Requests \subseteq Obj!Request
    /\ NoRequest \notin Obj!Request
    /\ NoResult \notin Obj!Result

\* A load and a compare_and_swap are what loops are made of: never loops.
\* There is no macro for a fetch_and, _or or _xor under the lock.
ASSUME ImplsAssumption ==
    \A i \in Impls :
        /\ i \in [Object -> [PrimOp -> Mechanism]]
        /\ \A o \in Object :
            /\ i[o]["load"] # "loop"
            /\ i[o]["compare_and_swap"] # "loop"
            /\ \A op \in BitwiseOp : i[o][op] # "lock"

\* The words the code computes (a subtraction is the addition of a negated
\* operand) are the words that are meant.
ASSUME ArithAssumption ==
    \A op \in Obj!ArithOp, v \in Value, s \in Value :
        /\ RefArith(op, v, s) \in Value
        /\ Arith(op, v, s) = RefArith(op, v, s)

\* The value primitive or call r computes from the value v of its object.
Computed(r, v) ==
    CASE r.op = "load" -> v
      [] r.op \in {"store", "store_relaxed", "exchange"} -> r.src
      [] r.op \in {"compare_and_swap", "compare_exchange"} ->
            IF v = r.exp THEN r.src ELSE v
      [] OTHER -> Arith(r.op, v, r.src)

LoadOf(r) == [r EXCEPT !.op = "load"]

SwapOf(r, old) ==
    [op |-> "compare_and_swap", obj |-> r.obj, src |-> Computed(r, old), exp |-> old]

\* The object the primitive of t works on, and how it is compiled.
Dst(t) == prim[t].obj

Uses(t, m) == impl[Dst(t)][prim[t].op] = m

AddOp == {"fetch_add", "fetch_sub"}

Stores(t) == prim[t].op \in {"store", "store_relaxed"}

\* A load, or a swap that finds another value than it expects.
ReadsOnly(t) ==
    \/ prim[t].op = "load"
    \/ prim[t].op = "compare_and_swap" /\ mem[Dst(t)] # prim[t].exp

-----------------------------------------------------------------------------
Init ==
    /\ impl \in Impls
    /\ mem \in [Object -> Value]
    /\ lock = 0
    /\ pc = [t \in Thread |-> "idle"]
    /\ call = [t \in Thread |-> NoRequest]
    /\ prim = [t \in Thread |-> NoRequest]
    /\ reg = [t \in Thread |-> NoResult]
    /\ new = [t \in Thread |-> NoResult]
    /\ ret = [t \in Thread |-> NoResult]

\* A thread enters the primitive p: at its first instruction, nothing read.
Enter(t, p) ==
    /\ prim' = [prim EXCEPT ![t] = p]
    /\ new' = [new EXCEPT ![t] = p.src]
    /\ reg' = [reg EXCEPT ![t] = NoResult]
    /\ pc' = [pc EXCEPT ![t] = "start"]

Goto(t, l) == pc' = [pc EXCEPT ![t] = l]

Invoke(t, r) ==
    /\ pc[t] = "idle"
    /\ call' = [call EXCEPT ![t] = r]
    /\ ret' = [ret EXCEPT ![t] = NoResult]
    /\ Enter(t, IF impl[r.obj][PrimOpOf(r.op)] = "loop"
                THEN LoadOf(r)
                ELSE [r EXCEPT !.op = PrimOpOf(r.op)])
    /\ UNCHANGED <<impl, mem, lock>>

\* One instruction or intrinsic.
Native(t) ==
    /\ pc[t] = "start"
    /\ Uses(t, "native")
    /\ reg' = [reg EXCEPT ![t] = mem[Dst(t)]]
    /\ mem' = [mem EXCEPT ![Dst(t)] = Computed(prim[t], @)]
    /\ Goto(t, "finish")
    /\ UNCHANGED <<impl, lock, call, prim, new, ret>>

\* Mutant of TestAndSet: the flag counts.
TestAndSetCounting(t) ==
    /\ pc[t] = "start"
    /\ Uses(t, "lock")
    /\ lock' = lock + 1
    /\ Goto(t, IF lock # 0 THEN "spin" ELSE "read")
    /\ UNCHANGED <<impl, mem, call, prim, reg, new, ret>>

\* test_and_set of the global lock: into the critical section, or spin.
TestAndSet(t) ==
    /\ pc[t] = "start"
    /\ Uses(t, "lock")
    /\ lock' = 1
    /\ \/ lock = 1 /\ Goto(t, "spin")
       \/ lock = 0 /\ Stores(t) /\ Goto(t, "write")
       \/ lock = 0 /\ ~Stores(t) /\ Goto(t, "read")
    /\ UNCHANGED <<impl, mem, call, prim, reg, new, ret>>

\* Mutant of Spin: seeing the flag clear is taken for owning the lock.
SpinIntoSection(t) ==
    /\ pc[t] = "spin"
    /\ lock = 0
    /\ Goto(t, IF Stores(t) THEN "write" ELSE "read")
    /\ UNCHANGED <<impl, mem, lock, call, prim, reg, new, ret>>

\* The inner while loop sees the lock released.
Spin(t) ==
    /\ pc[t] = "spin"
    /\ lock = 0
    /\ Goto(t, "start")
    /\ UNCHANGED <<impl, mem, lock, call, prim, reg, new, ret>>

\* Mutant of Read: a failed swap returns without unlocking.
ReadKeepingLock(t) ==
    /\ pc[t] = "read"
    /\ reg' = [reg EXCEPT ![t] = mem[Dst(t)]]
    /\ \/ ReadsOnly(t) /\ Goto(t, IF prim[t].op = "load" THEN "unlock" ELSE "finish")
       \/ prim[t].op \in AddOp /\ Goto(t, "reread")
       \/ ~ReadsOnly(t) /\ prim[t].op \notin AddOp /\ Goto(t, "write")
    /\ UNCHANGED <<impl, mem, lock, call, prim, new, ret>>

\* result = *dst
Read(t) ==
    /\ pc[t] = "read"
    /\ reg' = [reg EXCEPT ![t] = mem[Dst(t)]]
    /\ \/ ReadsOnly(t) /\ Goto(t, "unlock")
       \/ prim[t].op \in AddOp /\ Goto(t, "reread")
       \/ ~ReadsOnly(t) /\ prim[t].op \notin AddOp /\ Goto(t, "write")
    /\ UNCHANGED <<impl, mem, lock, call, prim, new, ret>>

\* *dst += src reads *dst a second time.
Reread(t) ==
    /\ pc[t] = "reread"
    /\ new' = [new EXCEPT ![t] = Computed(prim[t], mem[Dst(t)])]
    /\ Goto(t, "write")
    /\ UNCHANGED <<impl, mem, lock, call, prim, reg, ret>>

Write(t) ==
    /\ pc[t] = "write"
    /\ mem' = [mem EXCEPT ![Dst(t)] = new[t]]
    /\ Goto(t, "unlock")
    /\ UNCHANGED <<impl, lock, call, prim, reg, new, ret>>

Unlock(t) ==
    /\ pc[t] = "unlock"
    /\ lock' = 0
    /\ Goto(t, "finish")
    /\ UNCHANGED <<impl, mem, call, prim, reg, new, ret>>

\* The loop has its oldValue: compute newValue and try to swap it in.
TrySwap(t) ==
    /\ pc[t] = "finish"
    /\ Looping(t)
    /\ prim[t].op = "load"
    /\ Enter(t, SwapOf(call[t], reg[t]))
    /\ UNCHANGED <<impl, mem, lock, call, ret>>

\* Mutant of Retry: oldValue is loaded once, before the loop.
RetryStale(t) ==
    /\ pc[t] = "finish"
    /\ Looping(t)
    /\ prim[t].op = "compare_and_swap"
    /\ reg[t] # prim[t].exp
    /\ Enter(t, prim[t])
    /\ UNCHANGED <<impl, mem, lock, call, ret>>

\* Mutant of Retry: the loop has no exit test.
RetryAlways(t) ==
    /\ pc[t] = "finish"
    /\ Looping(t)
    /\ prim[t].op = "compare_and_swap"
    /\ Enter(t, LoadOf(call[t]))
    /\ UNCHANGED <<impl, mem, lock, call, ret>>

\* compare_and_swap(...) != oldValue: once more round the loop.
Retry(t) ==
    /\ pc[t] = "finish"
    /\ Looping(t)
    /\ prim[t].op = "compare_and_swap"
    /\ reg[t] # prim[t].exp
    /\ Enter(t, LoadOf(call[t]))
    /\ UNCHANGED <<impl, mem, lock, call, ret>>

\* Mutant of Return: the swap is tried once, like a weak one.
ReturnUnswapped(t) ==
    /\ pc[t] = "finish"
    /\ Looping(t) => prim[t].op = "compare_and_swap"
    /\ ret' = [ret EXCEPT ![t] = Outcome(t)]
    /\ call' = [call EXCEPT ![t] = NoRequest]
    /\ prim' = [prim EXCEPT ![t] = NoRequest]
    /\ reg' = [reg EXCEPT ![t] = NoResult]
    /\ new' = [new EXCEPT ![t] = NoResult]
    /\ Goto(t, "idle")
    /\ UNCHANGED <<impl, mem, lock>>

Return(t) ==
    /\ pc[t] = "finish"
    /\ Looping(t) => Swapped(t)
    /\ ret' = [ret EXCEPT ![t] = Outcome(t)]
    /\ call' = [call EXCEPT ![t] = NoRequest]
    /\ prim' = [prim EXCEPT ![t] = NoRequest]
    /\ reg' = [reg EXCEPT ![t] = NoResult]
    /\ new' = [new EXCEPT ![t] = NoResult]
    /\ Goto(t, "idle")
    /\ UNCHANGED <<impl, mem, lock>>

\* A step of a call that is under way.
Step(t) ==
    \/ Native(t)
    \/ TestAndSet(t) \/ Spin(t)
    \/ Read(t) \/ Reread(t) \/ Write(t)
    \/ Unlock(t)
    \/ TrySwap(t) \/ Retry(t)
    \/ Return(t)

Next == \E t \in Thread : Step(t) \/ \E r \in Requests : Invoke(t, r)

Spec == Init /\ [][Next]_vars

\* Every thread that is in a call is scheduled again and again; nobody is
\* obliged to make a call.
Fairness == \A t \in Thread : WF_vars(Step(t))

-----------------------------------------------------------------------------
InSection(t) == pc[t] \in {"read", "reread", "write", "unlock"}

TypeOK ==
    /\ impl \in [Object -> [PrimOp -> Mechanism]]
    /\ mem \in [Object -> Value]
    /\ lock \in {0, 1}
    /\ pc \in [Thread -> {"idle", "start", "spin", "read", "reread", "write",
                          "unlock", "finish"}]
    /\ call \in [Thread -> Requests \union {NoRequest}]
    /\ prim \in [Thread -> [op : PrimOp, obj : Object, src : Value,
                            exp : Value] \union {NoRequest}]
    /\ reg \in [Thread -> Value \union {NoResult}]
    /\ new \in [Thread -> Value \union {NoResult}]
    /\ ret \in [Thread -> Obj!Result \union {NoResult}]

\* The spinlock: at most one thread is between lock and unlock, whatever the
\* objects they work on, and the flag is set exactly while one is. (A thread
\* that finds the flag set sets it again: that must not outlive the owner.)
MutualExclusion ==
    /\ \A t, u \in Thread : InSection(t) /\ InSection(u) => t = u
    /\ lock = 1 <=> \E t \in Thread : InSection(t)

\* Inside its critical section a thread has an up-to-date view of *dst: what
\* it read is still there when it stores, and the sum of += was computed from
\* the value it will return. Nothing enforces this but the other operations
\* of the object going through the same lock.
SectionIsolated ==
    \A t \in Thread :
        /\ pc[t] = "reread" => reg[t] = mem[Dst(t)]
        /\ pc[t] = "write" /\ prim[t].op \notin {"store", "store_relaxed"}
            => /\ reg[t] = mem[Dst(t)]
               /\ new[t] = Computed(prim[t], mem[Dst(t)])

\* The tables the preprocessor produces let the operations of every object
\* exclude one another.
CompiledCoherently == \A o \in Object : Coherent(impl[o])

CoherentImpls == \A i \in Impls, o \in Object : Coherent(i[o])

\* Every call of the API appears to take effect at one instant between its
\* invocation and its return, and returns the value of that instant.
Linearizable == Obj!Spec

\* Lock-freedom of the whole: when every thread is inside a call, be it
\* spinning, retrying or in the critical section, one of them returns.
SomeCallReturns ==
    Fairness =>
        (\A t \in Thread : pc[t] # "idle") ~> (\E t \in Thread : pc[t] = "idle")

\* A call that the other threads leave alone completes: it is not waiting for
\* a lock nobody holds, nor retrying with a value that is no longer there.
LoneCallReturns ==
    Fairness => \A t \in Thread :
        <>[](\A u \in Thread \ {t} : pc[u] = "idle") => []<>(pc[t] = "idle")

\* An object for which c89atomic_is_lock_free answers yes: a call on it does
\* not depend on the progress of any other thread, wherever that one has been
\* stopped. Only calls that keep completing can keep it from completing.
LockFreeFor(reported) ==
    \A t \in Thread :
        WF_vars(Step(t)) =>
            \/ []<>(pc[t] = "idle" \/ impl[call[t].obj] \notin reported)
            \/ []<><<\E u \in Thread \ {t} : Return(u)>>_vars
=============================================================================
