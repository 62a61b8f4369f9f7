---------------------------- MODULE AtomicObject ----------------------------
(***************************************************************************)
(* What the c89atomic API promises, whatever the compiler and the CPU: a   *)
(* set of memory objects on which every call of every thread takes effect  *)
(* at one instant between its invocation and its return, and returns the   *)
(* value the object held at that instant.                                  *)
(***************************************************************************)
CONSTANTS
    Thread,         \* the threads of the program
    Object,         \* the memory objects they share
    Value,          \* the values of one object
    Requests,       \* the calls the threads may make
    NoRequest,      \* call[t] of a thread that is in no call
    NoResult,       \* ret[t] of a thread whose call has not taken effect
    Arith(_, _, _)  \* Arith(op, v, s): what fetch_<op> makes of v and s

VARIABLES
    mem,    \* the value of every object
    call,   \* the call each thread is in
    ret     \* what its last call returned, once it has taken effect

vars == <<mem, call, ret>>

ArithOp == {"fetch_add", "fetch_sub", "fetch_and", "fetch_or", "fetch_xor"}

StoreOp == {"store", "store_relaxed"}

CasOp == {"compare_and_swap", "compare_exchange"}

Op == {"load", "exchange"} \union StoreOp \union CasOp \union ArithOp

Request == [op : Op, obj : Object, src : Value, exp : Value]

\* ok is the Boolean of compare_exchange; value is the old value of the
\* object, which compare_exchange leaves in *expected.
Result == [ok : BOOLEAN, value : Value]

\* The value request r makes of the value v of its object.
NewValue(r, v) ==
    CASE r.op = "load" -> v
      [] r.op \in StoreOp \union {"exchange"} -> r.src
      [] r.op \in CasOp -> IF v = r.exp THEN r.src ELSE v
      [] OTHER -> Arith(r.op, v, r.src)

\* What the caller of r sees of it. A store returns nothing: its own operand
\* stands for that.
Returned(r, v) ==
    [ok    |-> r.op = "compare_exchange" => v = r.exp,
     value |-> IF r.op \in StoreOp THEN r.src ELSE v]

Init ==
    /\ mem \in [Object -> Value]
    /\ call = [t \in Thread |-> NoRequest]
    /\ ret = [t \in Thread |-> NoResult]

Invoke(t, r) ==
    /\ call[t] = NoRequest
    /\ call' = [call EXCEPT ![t] = r]
    /\ ret' = [ret EXCEPT ![t] = NoResult]
    /\ UNCHANGED mem

TakeEffect(t) ==
    /\ call[t] # NoRequest
    /\ ret[t] = NoResult
    /\ LET r == call[t] IN
        /\ ret' = [ret EXCEPT ![t] = Returned(r, mem[r.obj])]
        /\ mem' = [mem EXCEPT ![r.obj] = NewValue(r, mem[r.obj])]
    /\ UNCHANGED call

Return(t) ==
    /\ call[t] # NoRequest
    /\ ret[t] # NoResult
    /\ call' = [call EXCEPT ![t] = NoRequest]
    /\ UNCHANGED <<mem, ret>>

Next ==
    \E t \in Thread :
        \/ \E r \in Requests : Invoke(t, r)
        \/ TakeEffect(t)
        \/ Return(t)

Spec == Init /\ [][Next]_vars
=============================================================================
