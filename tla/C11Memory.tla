----------------------------- MODULE C11Memory ------------------------------
(***************************************************************************)
(* The atomic objects of C11 as c89atomic_*_explicit offers them to the    *)
(* data structures built on it: every object has a history of the values   *)
(* stored to it, and a load finds any value that the thread is not known   *)
(* to be past. What a thread knows is a view: how far into the history of  *)
(* each object it has come. Each stored value carries the view that whoever*)
(* acquires it gains.                                                      *)
(*                                                                         *)
(* New values go to the end of the history. There is no other place for    *)
(* them as the objects are used here: one thread at a time stores to one,  *)
(* and what the others do to it are read-modify-writes.                    *)
(***************************************************************************)
EXTENDS Integers, Sequences

CONSTANTS Thread, Location

VARIABLES
    history,    \* of each location: a sequence of [value, view]
    current,    \* the view of each thread
    acquired,   \* the view a thread gains at its next acquire fence
    released,   \* the view of each thread at its last release fence
    order       \* the view of the last sequentially consistent fence

memory == <<history, current, acquired, released, order>>

View == [Location -> Nat]

Join(v, w) == [l \in Location |-> IF v[l] < w[l] THEN w[l] ELSE v[l]]

Latest(l) == history[l][Len(history[l])].value

MemoryInit(initial) ==
    LET all == [l \in Location |-> 1] IN
    /\ history = [l \in Location |-> <<[value |-> initial[l], view |-> all]>>]
    /\ current = [t \in Thread |-> all]
    /\ acquired = [t \in Thread |-> all]
    /\ released = [t \in Thread |-> all]
    /\ order = all

\* Where in the history of l a load of t may find itself.
Readable(t, l) == current[t][l] .. Len(history[l])

Value(l, i) == history[l][i].value

LoadRelaxed(t, l, i) ==
    LET v == Join([current[t] EXCEPT ![l] = i], history[l][i].view) IN
    /\ current' = [current EXCEPT ![t][l] = i]
    /\ acquired' = [acquired EXCEPT ![t] = Join(@, v)]
    /\ UNCHANGED <<history, released, order>>

LoadAcquire(t, l, i) ==
    LET v == Join([current[t] EXCEPT ![l] = i], history[l][i].view) IN
    /\ current' = [current EXCEPT ![t] = v]
    /\ acquired' = [acquired EXCEPT ![t] = Join(@, v)]
    /\ UNCHANGED <<history, released, order>>

Put(t, l, value, view) ==
    LET i == Len(history[l]) + 1 IN
    /\ history' = [history EXCEPT ![l] =
            Append(@, [value |-> value, view |-> [view EXCEPT ![l] = i]])]
    /\ current' = [current EXCEPT ![t][l] = i]
    /\ acquired' = [acquired EXCEPT ![t][l] = i]

StoreRelaxed(t, l, value) ==
    /\ Put(t, l, value, released[t])
    /\ UNCHANGED <<released, order>>

StoreRelease(t, l, value) ==
    /\ Put(t, l, value, current[t])
    /\ UNCHANGED <<released, order>>

\* thread_fence(release) and a relaxed store.
FenceReleaseStore(t, l, value) ==
    /\ Put(t, l, value, current[t])
    /\ released' = [released EXCEPT ![t] = current[t]]
    /\ UNCHANGED order

FenceAcquire(t) ==
    /\ current' = [current EXCEPT ![t] = acquired[t]]
    /\ UNCHANGED <<history, acquired, released, order>>

FenceRelease(t) ==
    /\ released' = [released EXCEPT ![t] = current[t]]
    /\ UNCHANGED <<history, current, acquired, order>>

FenceAcqRel(t) ==
    /\ current' = [current EXCEPT ![t] = acquired[t]]
    /\ released' = [released EXCEPT ![t] = acquired[t]]
    /\ UNCHANGED <<history, acquired, order>>

\* thread_fence(seq_cst)
FenceSeqCst(t) ==
    LET v == Join(acquired[t], order) IN
    /\ order' = v
    /\ current' = [current EXCEPT ![t] = v]
    /\ acquired' = [acquired EXCEPT ![t] = v]
    /\ released' = [released EXCEPT ![t] = v]
    /\ UNCHANGED history

\* A read-modify-write: nothing comes between what it loads and what it
\* stores, and what it stores hands on the view of what it loaded.
Update(t, l, value, acquires, releases) ==
    LET n == Len(history[l])
        m == history[l][n].view
        v == [IF acquires THEN Join(current[t], m) ELSE current[t]
              EXCEPT ![l] = n + 1]
        own == IF releases THEN v ELSE released[t]
    IN
    /\ history' = [history EXCEPT ![l] = Append(@,
            [value |-> value, view |-> [Join(m, own) EXCEPT ![l] = n + 1]])]
    /\ current' = [current EXCEPT ![t] = v]
    /\ acquired' = [acquired EXCEPT ![t] = Join(Join(@, m), v)]
    /\ UNCHANGED <<released, order>>

\* A full barrier and the load of the latest value, in one instruction, that
\* leaves t with the view v; and one that also stores.
Synchronized(t, v) ==
    /\ current' = [current EXCEPT ![t] = v]
    /\ acquired' = [acquired EXCEPT ![t] = v]
    /\ released' = [released EXCEPT ![t] = v]
    /\ order' = v

LatestView(t, l) == Join(Join(acquired[t], order), history[l][Len(history[l])].view)

LoadSeqCst(t, l) ==
    /\ Synchronized(t, LatestView(t, l))
    /\ UNCHANGED history

UpdateSeqCst(t, l, value) ==
    LET v == [LatestView(t, l) EXCEPT ![l] = Len(history[l]) + 1] IN
    /\ Synchronized(t, v)
    /\ history' = [history EXCEPT ![l] = Append(@, [value |-> value, view |-> v])]

\* compare_exchange_strong(seq_cst, relaxed) that succeeds. (Taken as acquire
\* and release: no weaker than that.)
SwapSucceeds(t, l, expected, value) ==
    /\ Latest(l) = expected
    /\ Update(t, l, value, TRUE, TRUE)

\* One that fails: a relaxed load of another value.
SwapFails(t, l, expected) ==
    \E i \in Readable(t, l) :
        /\ Value(l, i) # expected
        /\ LoadRelaxed(t, l, i)

\* A plain access to l. It is no race when t is ordered after every access
\* before it, reads included: each of them leaves a mark in the history.
Ordered(t, l) == current[t][l] = Len(history[l])

Access(t, l, value) ==
    /\ Put(t, l, value, [k \in Location |-> 1])
    /\ UNCHANGED <<released, order>>

\* The program orders t after what u has done, by means of its own.
Told(t, u) ==
    /\ current' = [current EXCEPT ![t] = Join(@, current[u])]
    /\ acquired' = [acquired EXCEPT ![t] = Join(@, current[u])]
    /\ UNCHANGED <<history, released, order>>

MemoryTypeOK ==
    /\ \A l \in Location : \A i \in 1 .. Len(history[l]) : history[l][i].view \in View
    /\ {current, acquired, released} \subseteq [Thread -> View]
    /\ order \in View
    /\ \A t \in Thread, l \in Location : current[t][l] \in 1 .. Len(history[l])
=============================================================================
