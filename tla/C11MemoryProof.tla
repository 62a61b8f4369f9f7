--------------------------- MODULE C11MemoryProof ---------------------------
(***************************************************************************)
(* Facts about the memory of C11Memory, for any threads and locations and  *)
(* any set V of values: no view is ahead of the histories, no thread's     *)
(* view ever goes back, and histories only grow.                           *)
(***************************************************************************)
EXTENDS C11Memory, TLAPS

Message(V) == [value : V, view : View]

Histories(V) == [Location -> Seq(Message(V))]

\* v is not ahead of the histories h.
KnownIn(h, v) == \A l \in Location : v[l] \in 1 .. Len(h[l])

AtMost(v, w) == \A l \in Location : v[l] <= w[l]

MessagesKnown(h) ==
    \A l \in Location : \A i \in 1 .. Len(h[l]) :
        KnownIn(h, h[l][i].view) /\ h[l][i].view[l] = i

ViewsType ==
    /\ current \in [Thread -> View]
    /\ acquired \in [Thread -> View]
    /\ released \in [Thread -> View]
    /\ order \in View

\* Of a thread's views, the one that its relaxed stores hand on is the oldest,
\* and the one that its next acquire fence will give it is the newest.
ThreadViews(t) ==
    /\ KnownIn(history, current[t])
    /\ KnownIn(history, acquired[t])
    /\ KnownIn(history, released[t])
    /\ AtMost(released[t], current[t])
    /\ AtMost(current[t], acquired[t])

MemoryInv(V) ==
    /\ history \in Histories(V)
    /\ ViewsType
    /\ MessagesKnown(history)
    /\ \A t \in Thread : ThreadViews(t)
    /\ KnownIn(history, order)

\* g is h with nothing taken away.
Extends(h, g) ==
    \A l \in Location :
        /\ Len(h[l]) <= Len(g[l])
        /\ \A i \in 1 .. Len(h[l]) : g[l][i] = h[l][i]

\* What a step of thread t leaves of the memory.
StepOf(t) ==
    /\ Extends(history, history')
    /\ \A u \in Thread : AtMost(current[u], current'[u])
    /\ \A u \in Thread \ {t} : current'[u] = current[u]

-----------------------------------------------------------------------------
LEMMA JoinFacts ==
    ASSUME NEW v \in View, NEW w \in View
    PROVE  /\ Join(v, w) \in View
           /\ AtMost(v, Join(v, w)) /\ AtMost(w, Join(v, w))
           /\ \A h : KnownIn(h, v) /\ KnownIn(h, w) => KnownIn(h, Join(v, w))
           /\ \A u \in View : AtMost(v, u) /\ AtMost(w, u) => AtMost(Join(v, w), u)
           /\ \A u \in View : AtMost(u, v) \/ AtMost(u, w) => AtMost(u, Join(v, w))
    BY DEF View, Join, AtMost, KnownIn

LEMMA AtMostTransitive ==
    ASSUME NEW u \in View, NEW v \in View, NEW w \in View,
           AtMost(u, v), AtMost(v, w)
    PROVE  AtMost(u, w)
    BY DEF View, AtMost

LEMMA AtMostReflexive ==
    ASSUME NEW v \in View
    PROVE  AtMost(v, v)
    BY DEF View, AtMost

\* A view that is not ahead of a history is not ahead of a longer one.
LEMMA KnownInLonger ==
    ASSUME NEW V, NEW h \in Histories(V), NEW g \in Histories(V), Extends(h, g),
           NEW v \in View, KnownIn(h, v)
    PROVE  KnownIn(g, v)
    BY DEF Histories, Extends, KnownIn, View

\* A value is stored at the end of a history, with a view that is not ahead.
LEMMA AppendedHistory ==
    ASSUME NEW V, NEW h \in Histories(V), MessagesKnown(h),
           NEW l \in Location, NEW m \in Message(V), 
           NEW g \in Histories(V), g[l] = Append(h[l], m),
           \A k \in Location \ {l} : g[k] = h[k],
           KnownIn(g, m.view), m.view[l] = Len(h[l]) + 1
    PROVE  /\ Extends(h, g) /\ MessagesKnown(g)
           /\ Len(g[l]) = Len(h[l]) + 1
           /\ g[l][Len(g[l])] = m
<1>1. m \in Message(V)
    OBVIOUS
<1>2. /\ h[l] \in Seq(Message(V))
      /\ Append(h[l], m) \in Seq(Message(V))
      /\ Len(Append(h[l], m)) = Len(h[l]) + 1
      /\ \A i \in 1 .. Len(h[l]) : Append(h[l], m)[i] = h[l][i]
      /\ Append(h[l], m)[Len(h[l]) + 1] = m
    BY <1>1 DEF Histories
<1>3. /\ g[l] = Append(h[l], m)
      /\ \A k \in Location \ {l} : g[k] = h[k]
    OBVIOUS
<1>5. Extends(h, g)
    <2>1. ASSUME NEW k \in Location \ {l}
          PROVE  Len(h[k]) \in Nat /\ g[k] = h[k]
        BY <1>3 DEF Histories
    <2>2. Len(h[l]) \in Nat
        BY <1>2
    <2>3. QED
        BY <1>2, <1>3, <2>1, <2>2 DEF Extends
<1>6. ASSUME NEW k \in Location, NEW i \in 1 .. Len(g[k])
      PROVE  KnownIn(g, g[k][i].view) /\ g[k][i].view[k] = i
    <2>1. CASE k = l /\ i = Len(h[l]) + 1
        BY <2>1, <1>2, <1>3
    <2>2. CASE k # l \/ i # Len(h[l]) + 1
        <3>1. i \in 1 .. Len(h[k]) /\ g[k][i] = h[k][i]
            BY <2>2, <1>2, <1>3
        <3>2. h[k][i] \in Message(V)
            BY <3>1 DEF Histories
        <3>3. QED
            BY <3>1, <3>2, <1>5, KnownInLonger DEF MessagesKnown, Message
    <2>3. QED
        BY <2>1, <2>2
<1>7. QED
    BY <1>2, <1>3, <1>5, <1>6 DEF MessagesKnown

\* A step of t that gives it the views cur, acq and rel.
LEMMA NewViews ==
    ASSUME NEW V, MemoryInv(V), NEW t \in Thread,
           NEW cur \in View, NEW acq \in View, NEW rel \in View,
           current' = [current EXCEPT ![t] = cur],
           acquired' = [acquired EXCEPT ![t] = acq],
           released' = [released EXCEPT ![t] = rel],
           order' \in View, KnownIn(history', order'),
           history' \in Histories(V), Extends(history, history'),
           MessagesKnown(history'),
           KnownIn(history', cur), KnownIn(history', acq), KnownIn(history', rel),
           AtMost(rel, cur), AtMost(cur, acq), AtMost(current[t], cur)
    PROVE  MemoryInv(V)' /\ StepOf(t)
<1>1. ViewsType'
    BY DEF MemoryInv, ViewsType
<1>2. /\ current'[t] = cur /\ acquired'[t] = acq /\ released'[t] = rel
      /\ \A u \in Thread \ {t} :
            /\ current'[u] = current[u]
            /\ acquired'[u] = acquired[u]
            /\ released'[u] = released[u]
    BY DEF MemoryInv, ViewsType
<1>3. ThreadViews(t)'
    BY <1>2 DEF ThreadViews
<1>4. ASSUME NEW u \in Thread \ {t} PROVE ThreadViews(u)'
    <2>1. /\ current[u] \in View /\ acquired[u] \in View /\ released[u] \in View
          /\ ThreadViews(u) /\ history \in Histories(V)
        BY DEF MemoryInv, ViewsType
    <2>2. QED
        BY <1>2, <2>1, KnownInLonger DEF ThreadViews
<1>5. \A u \in Thread : AtMost(current[u], current'[u])
    BY <1>2, AtMostReflexive DEF MemoryInv, ViewsType
<1>6. QED
    BY <1>1, <1>2, <1>3, <1>4, <1>5 DEF MemoryInv, StepOf

-----------------------------------------------------------------------------
(* The actions                                                             *)

LEMMA MessageFacts ==
    ASSUME NEW V, MemoryInv(V), NEW l \in Location, NEW i \in 1 .. Len(history[l])
    PROVE  /\ history[l][i] \in Message(V)
           /\ history[l][i].view \in View /\ history[l][i].value \in V
           /\ KnownIn(history, history[l][i].view)
           /\ history[l][i].view[l] = i
           /\ \A h : Extends(history, h) /\ h \in Histories(V)
                        => KnownIn(h, history[l][i].view)
<1>1. history[l][i] \in Message(V)
    BY DEF MemoryInv, Histories
<1>2. history[l][i].view \in View /\ history[l][i].value \in V
    BY <1>1 DEF Message
<1>3. KnownIn(history, history[l][i].view) /\ history[l][i].view[l] = i
    BY DEF MemoryInv, MessagesKnown
<1>4. QED
    BY <1>1, <1>2, <1>3, KnownInLonger DEF MemoryInv

LEMMA ThreadFacts ==
    ASSUME NEW V, MemoryInv(V), NEW t \in Thread
    PROVE  /\ current[t] \in View /\ acquired[t] \in View /\ released[t] \in View
           /\ ThreadViews(t)
           /\ \A l \in Location : /\ Len(history[l]) \in Nat \ {0}
                                  /\ current[t][l] \in 1 .. Len(history[l])
    BY DEF MemoryInv, ViewsType, ThreadViews, KnownIn, View, Histories

\* The views of a thread that has loaded the message at l, i: without its view,
\* and with it.
LEMMA LoadedViews ==
    ASSUME NEW V, MemoryInv(V), NEW t \in Thread, NEW l \in Location,
           NEW i \in Readable(t, l),
           NEW at, at = [current[t] EXCEPT ![l] = i],
           NEW v, v = Join(at, history[l][i].view),
           NEW acq, acq = Join(acquired[t], v)
    PROVE  /\ at \in View /\ KnownIn(history, at) /\ AtMost(current[t], at)
           /\ v \in View /\ KnownIn(history, v) /\ AtMost(at, v)
           /\ AtMost(history[l][i].view, v)
           /\ acq \in View /\ KnownIn(history, acq) /\ AtMost(v, acq)
           /\ at[l] = i /\ v[l] = i
<1>1. /\ current[t] \in View /\ acquired[t] \in View /\ ThreadViews(t)
      /\ i \in 1 .. Len(history[l]) /\ current[t][l] <= i
    BY ThreadFacts DEF Readable
<1>2. /\ history[l][i].view \in View /\ KnownIn(history, history[l][i].view)
      /\ history[l][i].view[l] = i
    BY <1>1, MessageFacts
<1>3. /\ at \in View /\ KnownIn(history, at) /\ AtMost(current[t], at) /\ at[l] = i
    BY <1>1 DEF ThreadViews, KnownIn, AtMost, View
<1>4. /\ v \in View /\ KnownIn(history, v) /\ AtMost(at, v)
      /\ AtMost(history[l][i].view, v)
    BY <1>2, <1>3, JoinFacts
<1>5. v[l] = i
    BY <1>2, <1>3 DEF Join, View
<1>6. /\ acq \in View /\ KnownIn(history, acq) /\ AtMost(v, acq)
    BY <1>1, <1>4, JoinFacts DEF ThreadViews
<1>7. QED
    BY <1>3, <1>4, <1>5, <1>6

LEMMA LoadRelaxedInv ==
    ASSUME NEW V, MemoryInv(V), NEW t \in Thread, NEW l \in Location,
           NEW i \in Readable(t, l), LoadRelaxed(t, l, i)
    PROVE  /\ MemoryInv(V)' /\ StepOf(t) /\ history' = history
           /\ current'[t] = [current[t] EXCEPT ![l] = i]
<1> DEFINE at == [current[t] EXCEPT ![l] = i]
           v == Join(at, history[l][i].view)
           acq == Join(acquired[t], v)
<1>1. /\ at \in View /\ KnownIn(history, at) /\ AtMost(current[t], at)
      /\ v \in View /\ AtMost(at, v)
      /\ acq \in View /\ KnownIn(history, acq) /\ AtMost(v, acq)
    BY LoadedViews
<1>2. /\ current' = [current EXCEPT ![t] = at]
      /\ acquired' = [acquired EXCEPT ![t] = acq]
      /\ released' = [released EXCEPT ![t] = released[t]]
      /\ order' = order /\ history' = history
    BY DEF LoadRelaxed, MemoryInv, ViewsType
<1> HIDE DEF at, v, acq
<1>3. /\ current[t] \in View /\ released[t] \in View /\ ThreadViews(t)
    BY ThreadFacts
<1>4. AtMost(released[t], at) /\ AtMost(at, acq)
    BY <1>1, <1>3, AtMostTransitive DEF ThreadViews
<1>5. /\ order' \in View /\ KnownIn(history', order')
      /\ history' \in Histories(V) /\ Extends(history, history')
      /\ MessagesKnown(history')
    BY <1>2 DEF MemoryInv, ViewsType, Extends, Histories
<1>6. MemoryInv(V)' /\ StepOf(t)
    BY <1>1, <1>2, <1>3, <1>4, <1>5, NewViews DEF ThreadViews
<1>7. QED
    BY <1>2, <1>6 DEF at, MemoryInv, ViewsType

\* An acquire load gives its thread the view of what it has loaded.
LEMMA LoadAcquireInv ==
    ASSUME NEW V, MemoryInv(V), NEW t \in Thread, NEW l \in Location,
           NEW i \in Readable(t, l), LoadAcquire(t, l, i)
    PROVE  /\ MemoryInv(V)' /\ StepOf(t) /\ history' = history
           /\ current'[t][l] = i /\ AtMost(history[l][i].view, current'[t])
<1> DEFINE at == [current[t] EXCEPT ![l] = i]
           v == Join(at, history[l][i].view)
           acq == Join(acquired[t], v)
<1>1. /\ at \in View /\ AtMost(current[t], at)
      /\ v \in View /\ KnownIn(history, v) /\ AtMost(at, v)
      /\ AtMost(history[l][i].view, v) /\ v[l] = i
      /\ acq \in View /\ KnownIn(history, acq) /\ AtMost(v, acq)
    BY LoadedViews
<1>2. /\ current' = [current EXCEPT ![t] = v]
      /\ acquired' = [acquired EXCEPT ![t] = acq]
      /\ released' = [released EXCEPT ![t] = released[t]]
      /\ order' = order /\ history' = history
    BY DEF LoadAcquire, MemoryInv, ViewsType
<1> HIDE DEF at, v, acq
<1>3. /\ current[t] \in View /\ released[t] \in View /\ ThreadViews(t)
    BY ThreadFacts
<1>4. AtMost(current[t], v) /\ AtMost(released[t], v)
    BY <1>1, <1>3, AtMostTransitive DEF ThreadViews
<1>5. /\ order' \in View /\ KnownIn(history', order')
      /\ history' \in Histories(V) /\ Extends(history, history')
      /\ MessagesKnown(history')
    BY <1>2 DEF MemoryInv, ViewsType, Extends, Histories
<1>6. MemoryInv(V)' /\ StepOf(t)
    BY <1>1, <1>2, <1>3, <1>4, <1>5, NewViews DEF ThreadViews
<1>7. QED
    BY <1>1, <1>2, <1>6 DEF MemoryInv, ViewsType

\* What a store of x to l adds to the memory.
Stored(l, x) ==
    /\ \A k \in Location \ {l} : history'[k] = history[k]
    /\ Len(history'[l]) = Len(history[l]) + 1
    /\ history'[l][Len(history'[l])].value = x

\* A store of t that hands on the view w, with t's release fence at rel.
LEMMA PutInv ==
    ASSUME NEW V, MemoryInv(V), NEW t \in Thread, NEW l \in Location, NEW x \in V,
           NEW w \in View, KnownIn(history, w), Put(t, l, x, w),
           released' = released \/ released' = [released EXCEPT ![t] = current[t]],
           order' = order
    PROVE  /\ MemoryInv(V)' /\ StepOf(t) /\ Stored(l, x)
           /\ AtMost(w, history'[l][Len(history'[l])].view)
           /\ current'[t] = [current[t] EXCEPT ![l] = Len(history'[l])]
<1> DEFINE n == Len(history[l]) + 1
           m == [w EXCEPT ![l] = n]
           cur == [current[t] EXCEPT ![l] = n]
           acq == [acquired[t] EXCEPT ![l] = n]
           rel == released'[t]
<1>1. /\ current[t] \in View /\ acquired[t] \in View /\ ThreadViews(t)
      /\ Len(history[l]) \in Nat \ {0} /\ history \in Histories(V)
      /\ MessagesKnown(history) /\ KnownIn(history, order) /\ order \in View
    BY ThreadFacts DEF MemoryInv, ViewsType
<1>2. /\ history' = [history EXCEPT ![l] = Append(@, [value |-> x, view |-> m])]
      /\ current' = [current EXCEPT ![t] = cur]
      /\ acquired' = [acquired EXCEPT ![t] = acq]
    BY DEF Put, MemoryInv, ViewsType
<1>3. /\ m \in View /\ m[l] = n /\ cur \in View /\ cur[l] = n
      /\ acq \in View /\ acq[l] = n
      /\ \A k \in Location \ {l} : m[k] = w[k] /\ cur[k] = current[t][k]
                                    /\ acq[k] = acquired[t][k]
    BY SMTT(20), <1>1 DEF View
<1>4. history'[l] = Append(history[l], [value |-> x, view |-> m])
      /\ \A k \in Location \ {l} : history'[k] = history[k]
    BY <1>1, <1>2 DEF Histories
<1>5. [value |-> x, view |-> m] \in Message(V)
    BY <1>3 DEF Message
<1>6. /\ Len(history'[l]) = n
      /\ \A k \in Location \ {l} : Len(history'[k]) = Len(history[k])
    BY <1>1, <1>4, <1>5 DEF Histories
<1>0. /\ rel \in View /\ KnownIn(history, rel) /\ AtMost(rel, current[t])
      /\ released' = [released EXCEPT ![t] = rel]
    <2>1. rel = released[t] \/ rel = current[t]
        BY DEF MemoryInv, ViewsType
    <2>2. released[t] \in View /\ AtMost(current[t], current[t])
        BY <1>1, AtMostReflexive DEF MemoryInv, ViewsType
    <2>3. released' = [released EXCEPT ![t] = rel]
        BY DEF MemoryInv, ViewsType
    <2>4. QED
        BY <1>1, <2>1, <2>2, <2>3 DEF ThreadViews
<1> HIDE DEF m, cur, acq, rel
<1>7. KnownIn(history', m) /\ KnownIn(history', cur) /\ KnownIn(history', acq)
    <2>1. n \in 1 .. Len(history'[l])
        BY <1>1, <1>6
    <2>2. ASSUME NEW k \in Location \ {l}
          PROVE  /\ m[k] \in 1 .. Len(history'[k])
                 /\ cur[k] \in 1 .. Len(history'[k])
                 /\ acq[k] \in 1 .. Len(history'[k])
        BY <1>1, <1>3, <1>6 DEF KnownIn, ThreadViews
    <2>3. QED
        BY <1>3, <2>1, <2>2 DEF KnownIn
<1>8. /\ history' \in Histories(V) /\ Extends(history, history')
      /\ MessagesKnown(history')
      /\ history'[l][Len(history'[l])] = [value |-> x, view |-> m]
    <2> DEFINE new == [value |-> x, view |-> m]
    <2>1. new.view = m
        OBVIOUS
    <2>2. KnownIn(history', new.view) /\ new.view[l] = Len(history[l]) + 1
        BY <1>3, <1>7, <2>1
    <2>3. new \in Message(V) /\ history'[l] = Append(history[l], new)
        BY <1>4, <1>5
    <2> HIDE DEF new
    <2>6. history' \in Histories(V)
        BY <1>1, <1>2, <2>3 DEF Histories, new
    <2>4. /\ Extends(history, history') /\ MessagesKnown(history')
          /\ history'[l][Len(history'[l])] = new
        BY <1>1, <1>4, <2>2, <2>3, <2>6, AppendedHistory
    <2>5. QED
        BY <2>4, <2>6 DEF new
<1>9. KnownIn(history', rel) /\ KnownIn(history', order')
    BY <1>0, <1>1, <1>8, KnownInLonger
<1>10. AtMost(current[t], cur) /\ AtMost(cur, acq) /\ AtMost(w, m)
    <2>1. current[t][l] <= n /\ w[l] <= n
        BY <1>1 DEF ThreadViews, KnownIn
    <2>2. \A k \in Location : w[k] \in Nat /\ current[t][k] \in Nat
        BY <1>1 DEF View
    <2>3. QED
        BY <1>1, <1>3, <2>1, <2>2 DEF AtMost, ThreadViews
<1>11. AtMost(rel, cur)
    BY <1>0, <1>1, <1>3, <1>10, AtMostTransitive
<1>12. MemoryInv(V)' /\ StepOf(t)
    BY <1>0, <1>1, <1>2, <1>3, <1>7, <1>8, <1>9, <1>10, <1>11, NewViews
<1>13. current'[t] = cur
    BY <1>2 DEF MemoryInv, ViewsType
<1>14. QED
    BY <1>4, <1>6, <1>8, <1>10, <1>12, <1>13 DEF Stored, cur

\* A plain access.
LEMMA AccessInv ==
    ASSUME NEW V, MemoryInv(V), NEW t \in Thread, NEW l \in Location, NEW x \in V,
           Access(t, l, x)
    PROVE  /\ MemoryInv(V)' /\ StepOf(t) /\ Stored(l, x)
           /\ current'[t] = [current[t] EXCEPT ![l] = Len(history'[l])]
<1> DEFINE w == [k \in Location |-> 1]
<1>1. w \in View /\ KnownIn(history, w)
    BY ThreadFacts DEF View, KnownIn
<1>2. Put(t, l, x, w) /\ order' = order /\ released' = released
    BY DEF Access
<1> HIDE DEF w
<1>3. QED
    BY <1>1, <1>2, PutInv

\* A release store hands on all that its thread knows; a relaxed one what the
\* thread knew at its last release fence.
LEMMA StoreReleaseInv ==
    ASSUME NEW V, MemoryInv(V), NEW t \in Thread, NEW l \in Location, NEW x \in V,
           StoreRelease(t, l, x) \/ FenceReleaseStore(t, l, x)
    PROVE  /\ MemoryInv(V)' /\ StepOf(t) /\ Stored(l, x)
           /\ AtMost(current[t], history'[l][Len(history'[l])].view)
           /\ current'[t] = [current[t] EXCEPT ![l] = Len(history'[l])]
<1>1. /\ current[t] \in View /\ released[t] \in View /\ ThreadViews(t)
      /\ AtMost(current[t], current[t])
    BY ThreadFacts, AtMostReflexive
<1>2. /\ Put(t, l, x, current[t]) /\ order' = order
      /\ released' = released \/ released' = [released EXCEPT ![t] = current[t]]
    BY DEF StoreRelease, FenceReleaseStore
<1>3. QED
    BY <1>1, <1>2, PutInv DEF ThreadViews

LEMMA StoreRelaxedInv ==
    ASSUME NEW V, MemoryInv(V), NEW t \in Thread, NEW l \in Location, NEW x \in V,
           StoreRelaxed(t, l, x)
    PROVE  /\ MemoryInv(V)' /\ StepOf(t) /\ Stored(l, x)
           /\ AtMost(released[t], history'[l][Len(history'[l])].view)
           /\ current'[t] = [current[t] EXCEPT ![l] = Len(history'[l])]
<1>1. released[t] \in View /\ KnownIn(history, released[t])
    BY ThreadFacts DEF ThreadViews
<1>2. Put(t, l, x, released[t]) /\ order' = order /\ released' = released
    BY DEF StoreRelaxed
<1>3. QED
    BY <1>1, <1>2, PutInv

\* A read-modify-write hands on what the value it replaces did, and, as its
\* order says, what its thread knows; and it gives its thread the former.
HandsOn(t, l, acquires, releases) ==
    /\ AtMost(history[l][Len(history[l])].view, history'[l][Len(history'[l])].view)
    /\ releases => AtMost(current'[t], history'[l][Len(history'[l])].view)
    /\ acquires => AtMost(history[l][Len(history[l])].view, current'[t])
    /\ current'[t][l] = Len(history'[l])

LEMMA UpdateInv ==
    ASSUME NEW V, MemoryInv(V), NEW t \in Thread, NEW l \in Location, NEW x \in V,
           NEW acquires \in BOOLEAN, NEW releases \in BOOLEAN,
           Update(t, l, x, acquires, releases)
    PROVE  /\ MemoryInv(V)' /\ StepOf(t) /\ Stored(l, x)
           /\ HandsOn(t, l, acquires, releases)
<1> DEFINE n == Len(history[l])
           m == history[l][n].view
           v0 == IF acquires THEN Join(current[t], m) ELSE current[t]
           v == [v0 EXCEPT ![l] = n + 1]
           own == IF releases THEN v ELSE released[t]
           w0 == Join(m, own)
           w == [w0 EXCEPT ![l] = n + 1]
           am == Join(acquired[t], m)
           acq == Join(am, v)
           new == [value |-> x, view |-> w]
<1>1. /\ current[t] \in View /\ acquired[t] \in View /\ released[t] \in View
      /\ ThreadViews(t)
      /\ \A k \in Location : Len(history[k]) \in Nat \ {0}
    BY ThreadFacts
<1>2. m \in View /\ KnownIn(history, m)
    BY <1>1, MessageFacts
<1>3. /\ history' = [history EXCEPT ![l] = Append(@, new)]
      /\ current' = [current EXCEPT ![t] = v]
      /\ acquired' = [acquired EXCEPT ![t] = acq]
      /\ released' = [released EXCEPT ![t] = released[t]]
      /\ order' = order
    BY DEF Update, MemoryInv, ViewsType
<1> HIDE DEF m
<1>4. /\ v0 \in View /\ KnownIn(history, v0) /\ AtMost(current[t], v0)
      /\ acquires => AtMost(m, v0)
    <2>1. CASE acquires
        BY <1>1, <1>2, <2>1, JoinFacts DEF ThreadViews
    <2>2. CASE ~acquires
        BY <1>1, <2>2, AtMostReflexive DEF ThreadViews
    <2>3. QED
        BY <2>1, <2>2
<1> HIDE DEF v0
<1>5. /\ v \in View /\ v[l] = n + 1
      /\ \A k \in Location \ {l} : v[k] = v0[k]
    BY <1>1, <1>4 DEF View
<1>6. \A u \in View : KnownIn(history, u) /\ AtMost(u, v0) => AtMost(u, v)
    BY <1>1, <1>5 DEF AtMost, KnownIn, View
<1>7. /\ AtMost(current[t], v) /\ (acquires => AtMost(m, v))
      /\ AtMost(released[t], v)
    <2>1. AtMost(current[t], v) /\ (acquires => AtMost(m, v))
        BY <1>1, <1>2, <1>4, <1>6 DEF ThreadViews
    <2>2. QED
        BY <1>1, <1>5, <2>1, AtMostTransitive DEF ThreadViews
<1>8. \A k \in Location \ {l} : v[k] \in 1 .. Len(history[k])
    BY <1>4, <1>5 DEF KnownIn
<1> HIDE DEF v
<1>9. /\ own \in View /\ (releases => own = v)
      /\ own[l] <= n + 1
      /\ \A k \in Location \ {l} : own[k] \in 1 .. Len(history[k])
    BY <1>1, <1>5, <1>8 DEF ThreadViews, KnownIn
<1> HIDE DEF own
<1>10. /\ w0 \in View /\ AtMost(m, w0) /\ AtMost(own, w0)
       /\ w0[l] <= n + 1
       /\ \A k \in Location \ {l} : w0[k] \in 1 .. Len(history[k])
    <2>1. w0 \in View /\ AtMost(m, w0) /\ AtMost(own, w0)
        BY <1>2, <1>9, JoinFacts
    <2>2. m[l] <= n + 1
        BY <1>1, <1>2 DEF KnownIn
    <2>3. QED
        BY <1>2, <1>9, <2>1, <2>2 DEF Join, KnownIn
<1> HIDE DEF w0
<1>11. /\ w \in View /\ w[l] = n + 1
       /\ \A k \in Location \ {l} : w[k] = w0[k]
       /\ AtMost(w0, w)
    BY <1>1, <1>10 DEF View, AtMost
<1> HIDE DEF w
<1>12. AtMost(m, w) /\ (releases => AtMost(v, w))
    BY <1>2, <1>5, <1>9, <1>10, <1>11, AtMostTransitive
<1>13. new \in Message(V) /\ new.view = w /\ new.value = x
    BY <1>11 DEF Message
<1> HIDE DEF new
<1>14. /\ history' \in Histories(V) /\ Extends(history, history')
       /\ MessagesKnown(history') /\ Stored(l, x)
       /\ history'[l][Len(history'[l])] = new
       /\ KnownIn(history', v)
    <2>1. /\ history'[l] = Append(history[l], new)
          /\ \A k \in Location \ {l} : history'[k] = history[k]
          /\ history' \in Histories(V)
        BY <1>3, <1>13 DEF Histories, MemoryInv
    <2>2. Len(history'[l]) = n + 1
        BY <1>13, <2>1 DEF Histories, MemoryInv
    <2>3. KnownIn(history', v)
        BY <1>1, <1>5, <1>8, <2>1, <2>2 DEF KnownIn
    <2>4. KnownIn(history', new.view) /\ new.view[l] = Len(history[l]) + 1
        BY <1>1, <1>10, <1>11, <1>13, <2>1, <2>2 DEF KnownIn
    <2>5. history \in Histories(V) /\ MessagesKnown(history)
        BY DEF MemoryInv
    <2>6. /\ Extends(history, history') /\ MessagesKnown(history')
          /\ history'[l][Len(history'[l])] = new
        BY <1>13, <2>1, <2>4, <2>5, AppendedHistory
    <2>7. QED
        BY <1>13, <2>1, <2>2, <2>3, <2>6 DEF Stored
<1>15. /\ acq \in View /\ KnownIn(history', acq) /\ AtMost(v, acq)
    <2>1. am \in View /\ KnownIn(history, am)
        BY <1>1, <1>2, JoinFacts DEF ThreadViews
    <2>2. KnownIn(history', am)
        BY <1>14, <2>1, KnownInLonger DEF MemoryInv
    <2>3. QED
        BY <1>5, <1>14, <2>1, <2>2, JoinFacts
<1> HIDE DEF acq
<1>16. KnownIn(history', released[t]) /\ KnownIn(history', order') /\ order' \in View
    BY <1>1, <1>3, <1>14, KnownInLonger DEF MemoryInv, ViewsType, ThreadViews
<1>17. MemoryInv(V)' /\ StepOf(t)
    BY <1>1, <1>3, <1>5, <1>7, <1>14, <1>15, <1>16, NewViews
<1>18. current'[t] = v
    BY <1>3 DEF MemoryInv, ViewsType
<1>19. Len(history'[l]) = n + 1
    BY <1>14 DEF Stored
<1>20. QED
    BY <1>5, <1>7, <1>12, <1>13, <1>14, <1>17, <1>18, <1>19 DEF m, HandsOn

\* compare_exchange: the whole of it, when it succeeds, and a relaxed load
\* when it fails.
LEMMA SwapSucceedsInv ==
    ASSUME NEW V, MemoryInv(V), NEW t \in Thread, NEW l \in Location, NEW x \in V,
           NEW expected, SwapSucceeds(t, l, expected, x)
    PROVE  /\ MemoryInv(V)' /\ StepOf(t) /\ Stored(l, x)
           /\ Latest(l) = expected /\ Latest(l)' = x
           /\ AtMost(history[l][Len(history[l])].view, history'[l][Len(history'[l])].view)
           /\ AtMost(current'[t], history'[l][Len(history'[l])].view)
           /\ AtMost(history[l][Len(history[l])].view, current'[t])
           /\ current'[t][l] = Len(history'[l])
<1>1. Update(t, l, x, TRUE, TRUE) /\ Latest(l) = expected
    BY DEF SwapSucceeds
<1>2. MemoryInv(V)' /\ StepOf(t) /\ Stored(l, x) /\ HandsOn(t, l, TRUE, TRUE)
    BY <1>1, UpdateInv
<1>3. QED
    BY <1>1, <1>2 DEF Stored, Latest, HandsOn

LEMMA SwapFailsInv ==
    ASSUME NEW V, MemoryInv(V), NEW t \in Thread, NEW l \in Location,
           NEW expected, SwapFails(t, l, expected)
    PROVE  /\ MemoryInv(V)' /\ StepOf(t) /\ history' = history
           /\ \E i \in Readable(t, l) :
                /\ Value(l, i) # expected
                /\ current'[t] = [current[t] EXCEPT ![l] = i]
<1>1. PICK i \in Readable(t, l) : Value(l, i) # expected /\ LoadRelaxed(t, l, i)
    BY DEF SwapFails
<1>2. QED
    BY <1>1, LoadRelaxedInv

\* A sequentially consistent fence: its thread gains all that those before it
\* knew, and hands it on.
LEMMA FenceSeqCstInv ==
    ASSUME NEW V, MemoryInv(V), NEW t \in Thread, FenceSeqCst(t)
    PROVE  /\ MemoryInv(V)' /\ StepOf(t) /\ history' = history
           /\ AtMost(order, order')
           /\ current'[t] = order' /\ released'[t] = order'
<1> DEFINE v == Join(acquired[t], order)
<1>1. /\ current[t] \in View /\ acquired[t] \in View /\ order \in View
      /\ ThreadViews(t) /\ KnownIn(history, order)
    BY ThreadFacts DEF MemoryInv, ViewsType
<1>2. /\ v \in View /\ KnownIn(history, v)
      /\ AtMost(acquired[t], v) /\ AtMost(order, v) /\ AtMost(v, v)
    BY <1>1, JoinFacts, AtMostReflexive DEF ThreadViews
<1>3. /\ order' = v /\ history' = history
      /\ current' = [current EXCEPT ![t] = v]
      /\ acquired' = [acquired EXCEPT ![t] = v]
      /\ released' = [released EXCEPT ![t] = v]
    BY DEF FenceSeqCst
<1> HIDE DEF v
<1>4. AtMost(current[t], v)
    BY <1>1, <1>2, AtMostTransitive DEF ThreadViews
<1>5. /\ order' \in View /\ KnownIn(history', order')
      /\ history' \in Histories(V) /\ Extends(history, history')
      /\ MessagesKnown(history') /\ KnownIn(history', v)
    BY <1>2, <1>3 DEF MemoryInv, ViewsType, Extends, Histories
<1>6. MemoryInv(V)' /\ StepOf(t)
    BY <1>2, <1>3, <1>4, <1>5, NewViews
<1>7. current'[t] = v /\ released'[t] = v
    BY <1>3 DEF MemoryInv, ViewsType
<1>8. QED
    BY <1>2, <1>3, <1>6, <1>7

\* The other fences: acquire, release, and both.
LEMMA FenceInv ==
    ASSUME NEW V, MemoryInv(V), NEW t \in Thread,
           FenceAcquire(t) \/ FenceRelease(t) \/ FenceAcqRel(t)
    PROVE  MemoryInv(V)' /\ StepOf(t) /\ history' = history
<1>1. /\ current[t] \in View /\ acquired[t] \in View /\ released[t] \in View
      /\ ThreadViews(t)
    BY ThreadFacts
<1>2. /\ AtMost(current[t], current[t]) /\ AtMost(acquired[t], acquired[t])
      /\ AtMost(released[t], acquired[t])
    BY <1>1, AtMostReflexive, AtMostTransitive DEF ThreadViews
<1>3. PICK cur \in {current[t], acquired[t]}, rel \in {released[t], current[t], acquired[t]} :
        /\ current' = [current EXCEPT ![t] = cur]
        /\ acquired' = [acquired EXCEPT ![t] = acquired[t]]
        /\ released' = [released EXCEPT ![t] = rel]
        /\ AtMost(rel, cur)
        /\ order' = order /\ history' = history
    <2>1. CASE FenceAcquire(t)
        BY <1>2, <2>1 DEF FenceAcquire, MemoryInv, ViewsType
    <2>2. CASE FenceRelease(t)
        BY <1>2, <2>2 DEF FenceRelease, MemoryInv, ViewsType
    <2>3. CASE FenceAcqRel(t)
        BY <1>2, <2>3 DEF FenceAcqRel, MemoryInv, ViewsType
    <2>4. QED
        BY <2>1, <2>2, <2>3
<1>4. /\ cur \in View /\ KnownIn(history, cur) /\ rel \in View /\ KnownIn(history, rel)
      /\ AtMost(current[t], cur) /\ AtMost(cur, acquired[t])
    BY <1>1, <1>2 DEF ThreadViews
<1>5. /\ order' \in View /\ KnownIn(history', order')
      /\ history' \in Histories(V) /\ Extends(history, history')
      /\ MessagesKnown(history')
    BY <1>3 DEF MemoryInv, ViewsType, Extends, Histories
<1>6. KnownIn(history', cur) /\ KnownIn(history', rel) /\ KnownIn(history', acquired[t])
    BY <1>1, <1>3, <1>4 DEF ThreadViews
<1>7. MemoryInv(V)' /\ StepOf(t)
    BY <1>1, <1>3, <1>4, <1>5, <1>6, NewViews
<1>8. QED
    BY <1>3, <1>7

\* A step that is a full barrier leaves its thread with one view.
LEMMA SynchronizedInv ==
    ASSUME NEW V, MemoryInv(V), NEW t \in Thread, NEW v \in View, Synchronized(t, v),
           AtMost(current[t], v), KnownIn(history', v), MessagesKnown(history'),
           history' \in Histories(V), Extends(history, history')
    PROVE  MemoryInv(V)' /\ StepOf(t) /\ current'[t] = v
<1>1. /\ current' = [current EXCEPT ![t] = v]
      /\ acquired' = [acquired EXCEPT ![t] = v]
      /\ released' = [released EXCEPT ![t] = v]
      /\ order' = v /\ AtMost(v, v)
    BY AtMostReflexive DEF Synchronized
<1>2. MemoryInv(V)' /\ StepOf(t)
    BY <1>1, NewViews
<1>3. QED
    BY <1>1, <1>2 DEF MemoryInv, ViewsType

\* What t knows after it has taken in the last value of l and its view.
LEMMA LatestViewFacts ==
    ASSUME NEW V, MemoryInv(V), NEW t \in Thread, NEW l \in Location
    PROVE  /\ LatestView(t, l) \in View
           /\ KnownIn(history, LatestView(t, l))
           /\ AtMost(current[t], LatestView(t, l))
           /\ AtMost(history[l][Len(history[l])].view, LatestView(t, l))
<1> DEFINE m == history[l][Len(history[l])].view
           w == Join(acquired[t], order)
<1>1. /\ current[t] \in View /\ acquired[t] \in View /\ ThreadViews(t)
      /\ order \in View /\ KnownIn(history, order) /\ Len(history[l]) \in Nat \ {0}
    BY ThreadFacts DEF MemoryInv, ViewsType
<1>2. m \in View /\ KnownIn(history, m)
    BY <1>1, MessageFacts
<1>3. w \in View /\ KnownIn(history, w) /\ AtMost(acquired[t], w)
    BY <1>1, JoinFacts DEF ThreadViews
<1>4. LatestView(t, l) = Join(w, m)
    BY DEF LatestView
<1> HIDE DEF m, w
<1>5. /\ Join(w, m) \in View /\ KnownIn(history, Join(w, m))
      /\ AtMost(w, Join(w, m)) /\ AtMost(m, Join(w, m))
    BY <1>2, <1>3, JoinFacts
<1>6. AtMost(current[t], Join(w, m))
    BY <1>1, <1>3, <1>5, AtMostTransitive DEF ThreadViews
<1>7. QED
    BY <1>4, <1>5, <1>6 DEF m

\* A load that is a full barrier, as a compare_and_swap that fails is.
LEMMA LoadSeqCstInv ==
    ASSUME NEW V, MemoryInv(V), NEW t \in Thread, NEW l \in Location, LoadSeqCst(t, l)
    PROVE  MemoryInv(V)' /\ StepOf(t) /\ history' = history
<1>1. Synchronized(t, LatestView(t, l)) /\ history' = history
    BY DEF LoadSeqCst
<1>2. /\ KnownIn(history', LatestView(t, l)) /\ MessagesKnown(history')
      /\ history' \in Histories(V) /\ Extends(history, history')
    BY <1>1, LatestViewFacts DEF MemoryInv, Extends, Histories
<1>3. QED
    BY <1>1, <1>2, LatestViewFacts, SynchronizedInv

\* A read-modify-write that is a full barrier: it gives its thread what the
\* value it replaces hands on, and hands on all that its thread then knows.
LEMMA UpdateSeqCstInv ==
    ASSUME NEW V, MemoryInv(V), NEW t \in Thread, NEW l \in Location, NEW x \in V,
           UpdateSeqCst(t, l, x)
    PROVE  /\ MemoryInv(V)' /\ StepOf(t) /\ Stored(l, x)
           /\ AtMost(history[l][Len(history[l])].view, current'[t])
           /\ AtMost(current[t], current'[t])
           /\ history'[l][Len(history'[l])].view = current'[t]
<1> DEFINE n == Len(history[l])
           m == history[l][n].view
           v0 == LatestView(t, l)
           v == [v0 EXCEPT ![l] = n + 1]
           new == [value |-> x, view |-> v]
<1>1. /\ Synchronized(t, v) /\ history' = [history EXCEPT ![l] = Append(@, new)]
    BY DEF UpdateSeqCst
<1>2. /\ v0 \in View /\ KnownIn(history, v0) /\ AtMost(current[t], v0) /\ AtMost(m, v0)
    BY LatestViewFacts
<1>3. /\ current[t] \in View /\ m \in View
      /\ \A k \in Location : Len(history[k]) \in Nat \ {0}
      /\ KnownIn(history, m) /\ KnownIn(history, current[t])
    BY ThreadFacts, MessageFacts DEF ThreadViews
<1> HIDE DEF v0, m
<1>4. /\ v \in View /\ v[l] = n + 1
      /\ \A k \in Location \ {l} : v[k] = v0[k]
    BY <1>2, <1>3 DEF View
<1>5. \A u \in View : KnownIn(history, u) /\ AtMost(u, v0) => AtMost(u, v)
    BY <1>2, <1>3, <1>4 DEF AtMost, KnownIn, View
<1>6. AtMost(current[t], v) /\ AtMost(m, v)
    BY <1>2, <1>3, <1>5
<1>7. \A k \in Location \ {l} : v[k] \in 1 .. Len(history[k])
    BY <1>2, <1>4 DEF KnownIn
<1> HIDE DEF v
<1>8. new \in Message(V) /\ new.view = v /\ new.value = x
    BY <1>4 DEF Message
<1> HIDE DEF new
<1>9. /\ history'[l] = Append(history[l], new)
      /\ \A k \in Location \ {l} : history'[k] = history[k]
      /\ history' \in Histories(V) /\ history \in Histories(V) /\ MessagesKnown(history)
    BY <1>1, <1>8 DEF Histories, MemoryInv
<1>10. Len(history'[l]) = n + 1
    BY <1>8, <1>9 DEF Histories
<1>11. KnownIn(history', v)
    BY <1>3, <1>4, <1>7, <1>9, <1>10 DEF KnownIn
<1>12. /\ Extends(history, history') /\ MessagesKnown(history')
       /\ history'[l][Len(history'[l])] = new
    BY <1>4, <1>8, <1>9, <1>11, AppendedHistory
<1>13. MemoryInv(V)' /\ StepOf(t) /\ current'[t] = v
    BY <1>1, <1>4, <1>6, <1>9, <1>11, <1>12, SynchronizedInv
<1>14. Stored(l, x)
    BY <1>8, <1>9, <1>10, <1>12 DEF Stored
<1>15. QED
    BY <1>6, <1>8, <1>12, <1>13, <1>14 DEF m

\* A thread that another has told of what it has done.
LEMMA ToldInv ==
    ASSUME NEW V, MemoryInv(V), NEW t \in Thread, NEW u \in Thread, Told(t, u)
    PROVE  /\ MemoryInv(V)' /\ StepOf(t) /\ history' = history
           /\ AtMost(current[u], current'[t])
<1> DEFINE cur == Join(current[t], current[u])
           acq == Join(acquired[t], current[u])
           rel == released[t]
<1>1. /\ current[t] \in View /\ acquired[t] \in View /\ rel \in View
      /\ current[u] \in View /\ ThreadViews(t) /\ ThreadViews(u)
    BY ThreadFacts
<1>2. /\ cur \in View /\ AtMost(current[t], cur) /\ AtMost(current[u], cur)
      /\ KnownIn(history, cur)
      /\ acq \in View /\ KnownIn(history, acq)
    BY <1>1, JoinFacts DEF ThreadViews
<1>3. AtMost(cur, acq)
    BY <1>1 DEF ThreadViews, Join, AtMost, View
<1>4. /\ current' = [current EXCEPT ![t] = cur]
      /\ acquired' = [acquired EXCEPT ![t] = acq]
      /\ released' = [released EXCEPT ![t] = rel]
      /\ order' = order /\ history' = history
    BY DEF Told, MemoryInv, ViewsType
<1>5. AtMost(rel, current[t]) /\ KnownIn(history, rel)
    BY <1>1 DEF ThreadViews
<1> HIDE DEF cur, acq, rel
<1>6. AtMost(rel, cur)
    BY <1>1, <1>2, <1>5, AtMostTransitive
<1>7. /\ order' \in View /\ KnownIn(history', order')
      /\ history' \in Histories(V) /\ Extends(history, history')
      /\ MessagesKnown(history')
    BY <1>4 DEF MemoryInv, ViewsType, Extends, Histories
<1>8. KnownIn(history', cur) /\ KnownIn(history', acq) /\ KnownIn(history', rel)
    BY <1>2, <1>4, <1>5
<1>9. MemoryInv(V)' /\ StepOf(t)
    BY <1>1, <1>2, <1>3, <1>4, <1>6, <1>7, <1>8, NewViews
<1>10. QED
    BY <1>2, <1>4, <1>9 DEF MemoryInv, ViewsType

LEMMA InitialMemory ==
    ASSUME NEW V, NEW initial \in [Location -> V], MemoryInit(initial)
    PROVE  MemoryInv(V)
<1> DEFINE all == [l \in Location |-> 1]
           first(l) == [value |-> initial[l], view |-> all]
<1>1. /\ history = [l \in Location |-> <<first(l)>>]
      /\ current = [t \in Thread |-> all]
      /\ acquired = [t \in Thread |-> all]
      /\ released = [t \in Thread |-> all]
      /\ order = all
    BY DEF MemoryInit
<1>2. all \in View /\ \A l \in Location : all[l] = 1
    BY DEF View
<1>3. \A l \in Location : first(l) \in Message(V) /\ first(l).view = all
    BY <1>2 DEF Message
<1> HIDE DEF all, first
<1>4. history \in Histories(V)
    BY <1>1, <1>3 DEF Histories
<1>5. \A l \in Location : Len(history[l]) = 1 /\ history[l][1].view = all
    BY <1>1, <1>3
<1>6. KnownIn(history, all) /\ AtMost(all, all)
    BY <1>2, <1>5, AtMostReflexive DEF KnownIn
<1>7. MessagesKnown(history)
    BY <1>2, <1>5, <1>6 DEF MessagesKnown
<1>8. ViewsType /\ \A t \in Thread : ThreadViews(t)
    BY <1>1, <1>2, <1>6 DEF ViewsType, ThreadViews
<1>9. QED
    BY <1>1, <1>4, <1>6, <1>7, <1>8 DEF MemoryInv

\* The type of the memory in the model checker's words.
LEMMA MemoryInvType ==
    ASSUME NEW V, MemoryInv(V)
    PROVE  /\ MemoryTypeOK
           /\ \A l \in Location : \A i \in 1 .. Len(history[l]) : Value(l, i) \in V
           /\ \A l \in Location : Latest(l) \in V
<1>1. \A l \in Location : \A i \in 1 .. Len(history[l]) :
        history[l][i].view \in View /\ history[l][i].value \in V
    BY MessageFacts
<1>2. {current, acquired, released} \subseteq [Thread -> View] /\ order \in View
    BY DEF MemoryInv, ViewsType
<1>3. \A t \in Thread, l \in Location : current[t][l] \in 1 .. Len(history[l])
    BY ThreadFacts
<1>4. \A l \in Location : Len(history[l]) \in 1 .. Len(history[l])
    BY DEF MemoryInv, KnownIn, Histories, View, ViewsType
<1>5. QED
    BY <1>1, <1>2, <1>3, <1>4 DEF MemoryTypeOK, Value, Latest
=============================================================================
