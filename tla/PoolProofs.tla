------------------------------ MODULE PoolProofs ----------------------------
(***************************************************************************)
(* PoolKeepsCalls for any calls, connections and limit. The invariant ties *)
(* the pool's list to the watchers: a watched connection is in the list    *)
(* and not retired, and once the pool is gone no call picks from it.       *)
(***************************************************************************)
EXTENDS QuicPool, FiniteSetTheorems, SequenceTheorems, TLAPS

Watching == {"watching", "retiring"}
WatcherStates == Watching \cup {"none", "draining", "armed", "waiting", "done"}
CallPhases == {"new", "picking", "declined", "armed", "waiting", "woken", "growing", "flying", "done"}
CallStates == [phase : CallPhases, at : Ids, streaming : BOOLEAN, load : Nat, patient : BOOLEAN]
DialerStates == {"none", "dialing", "added", "failed", "cleared", "cleared failed", "pausing"}

TypeOK ==
    /\ conn \in [Ids -> {"none", "open", "lost", "retired"}]
    /\ added \in Seq(Ids \ {Primary})
    /\ watcher \in [Ids -> WatcherStates]
    /\ call \in [Calls -> CallStates]
    /\ dialer \in DialerStates /\ notifying \in Nat

(* The pool has the connections that are watched; unless it is gone, no others. *)
MemberInv ==
    /\ AddedOnce /\ Open <= MaxConns
    /\ conn[Primary] \in {"open", "lost"} /\ watcher[Primary] = "none"
    /\ \A c \in Ids :
        /\ watcher[c] \in Watching => c \in Range(added) /\ conn[c] \in {"open", "lost"}
        /\ c \in Range(added) => watcher[c] # "none" /\ (watcher[c] \in Watching \/ dropped)
        /\ conn[c] = "none" => watcher[c] = "none"
        /\ watcher[c] = "retiring" => ~dropped

(* Calls run on connections that were dialed; none is left to pick once the pool is gone. *)
CallInv ==
    \A k \in Calls :
        /\ call[k].phase \in {"growing", "flying"} => conn[call[k].at] # "none"
        /\ dropped => call[k].phase \in {"new", "flying", "done"}

PoolInv == TypeOK /\ MemberInv /\ CallInv /\ RetiredIsIdle /\ NoMissedDial

-----------------------------------------------------------------------------
(* The connections of the pool, as a sequence. *)

(* Connections are numbered from the primary one. *)
LEMMA Idx == Ids \subseteq Nat /\ Primary \in Ids
  BY PoolAssumption DEF Ids, Primary

(* Pool::remove takes out the connection it is given and nothing else. *)
LEMMA Forgetting ==
    ASSUME NEW S, added \in Seq(S), AddedOnce, NEW c, Forget(c)
    PROVE  /\ added' \in Seq(S) /\ Len(added') <= Len(added)
           /\ Range(added') = Range(added) \ {c}
           /\ AddedOnce'
<1>1. CASE c \notin Range(added)
  BY <1>1 DEF Forget, Without, AddedOnce, Range
<1>2. CASE c \in Range(added)
  <2> DEFINE i == CHOOSE n \in DOMAIN added : added[n] = c
  <2>1. i \in 1..Len(added) /\ added[i] = c
    BY <1>2 DEF Range
  <2>2. added' = SubSeq(added, 1, i - 1) \o SubSeq(added, i + 1, Len(added))
    BY <1>2, Zenon DEF Forget, Without
  <2> HIDE DEF i
  <2>3. /\ added' \in Seq(S) /\ Len(added') = Len(added) - 1
        /\ \A j \in 1..(Len(added) - 1) : added'[j] = IF j < i THEN added[j] ELSE added[j + 1]
    <3> DEFINE front == SubSeq(added, 1, i - 1)
               back == SubSeq(added, i + 1, Len(added))
    <3>1. front \in Seq(S) /\ Len(front) = i - 1 /\ \A j \in 1..(i - 1) : front[j] = added[j]
      BY <2>1
    <3>2. /\ back \in Seq(S) /\ Len(back) = Len(added) - i
          /\ \A j \in 1..(Len(added) - i) : back[j] = added[i + j]
      BY <2>1
    <3>3. added' = front \o back
      BY <2>2, Zenon
    <3> HIDE DEF front, back
    <3>4. /\ added' \in Seq(S) /\ Len(added') = Len(front) + Len(back)
          /\ \A j \in 1..(Len(front) + Len(back)) :
                 added'[j] = IF j <= Len(front) THEN front[j] ELSE back[j - Len(front)]
      BY <3>1, <3>2, <3>3, ConcatProperties, ZenonT(30)
    <3>5. added' \in Seq(S) /\ Len(added') = Len(added) - 1
      BY <2>1, <3>1, <3>2, <3>4
    <3>6. ASSUME NEW j \in 1..(Len(added) - 1)
          PROVE  added'[j] = IF j < i THEN added[j] ELSE added[j + 1]
      <4>1. CASE j < i
        <5>1. j \in 1..(Len(front) + Len(back)) /\ j <= Len(front) /\ front[j] = added[j]
          BY <2>1, <3>1, <3>2, <4>1
        <5> QED
          BY <3>4, <4>1, <5>1, Zenon
      <4>2. CASE j >= i
        <5>3. j \in 1..(Len(front) + Len(back)) /\ ~(j <= Len(front)) /\ j - Len(front) = j - (i - 1)
          BY <2>1, <3>1, <3>2, <4>2
        <5>4. j - (i - 1) \in 1..(Len(added) - i)
          BY <2>1, <4>2
        <5>1. added'[j] = back[j - (i - 1)] /\ j - (i - 1) \in 1..(Len(added) - i)
          BY <3>4, <5>3, <5>4, Zenon
        <5>2. back[j - (i - 1)] = added[i + (j - (i - 1))] /\ i + (j - (i - 1)) = j + 1
          BY <2>1, <3>2, <5>1, <4>2
        <5> QED
          BY <2>1, <4>2, <5>1, <5>2
      <4> QED
        BY <2>1, <4>1, <4>2
    <3> QED
      BY <3>5, <3>6, Zenon
  <2>4. ASSUME NEW d \in Range(added') PROVE d \in Range(added) /\ d # c
    BY <2>1, <2>3, <2>4, SMTT(30) DEF Range, AddedOnce
  <2>5. ASSUME NEW d \in Range(added), d # c PROVE d \in Range(added')
    <3>1. PICK j \in 1..Len(added) : added[j] = d
      BY <2>5 DEF Range
    <3>2. CASE j < i
      BY <2>1, <2>3, <3>1, <3>2, SMTT(30) DEF Range
    <3>3. CASE j > i
      <4>1. added'[j - 1] = d /\ j - 1 \in DOMAIN added'
        BY <2>1, <2>3, <3>1, <3>3
      <4> QED
        BY <4>1, Zenon DEF Range
    <3> QED
      BY <2>1, <2>5, <3>1, <3>2, <3>3
  <2>6. AddedOnce'
    BY <2>1, <2>3, SMTT(30) DEF AddedOnce
  <2> QED
    BY <2>3, <2>4, <2>5, <2>6
<1> QED
  BY <1>1, <1>2, Zenon

(* Pool::add puts a new connection in once. *)
LEMMA Adding ==
    ASSUME NEW S, added \in Seq(S), AddedOnce, NEW c \in S, c \notin Range(added), added' = Append(added, c)
    PROVE  /\ added' \in Seq(S) /\ Len(added') = Len(added) + 1
           /\ Range(added') = Range(added) \cup {c}
           /\ AddedOnce'
<1>1. /\ added' \in Seq(S) /\ Len(added') = Len(added) + 1
      /\ \A j \in 1..(Len(added) + 1) : added'[j] = IF j <= Len(added) THEN added[j] ELSE c
  OBVIOUS
<1>2. AddedOnce'
  BY <1>1 DEF AddedOnce, Range
<1>3. Range(added') = Range(added) \cup {c}
  BY <1>1 DEF Range
<1> QED
  BY <1>1, <1>2, <1>3, Zenon

(* The list has no more connections than entries. *)
LEMMA RangeIsSmall ==
    ASSUME NEW S, added \in Seq(S)
    PROVE  IsFiniteSet(Range(added)) /\ Cardinality(Range(added)) <= Len(added)
<1>1. added \in Surjection(1..Len(added), Range(added))
  BY DEF Surjection, Range
<1>2. IsFiniteSet(1..Len(added)) /\ Cardinality(1..Len(added)) = Len(added)
  <2>1. Len(added) \in Nat
    OBVIOUS
  <2>2. /\ IsFiniteSet(1..Len(added))
        /\ Cardinality(1..Len(added)) = IF 1 > Len(added) THEN 0 ELSE Len(added) - 1 + 1
    BY <2>1, FS_Interval, SMTT(30)
  <2> QED
    BY <2>1, <2>2
<1> QED
  BY <1>1, <1>2, FS_Surjection

(* A nonempty set of numbers has a least one. *)
LEMMA LeastNat ==
    ASSUME NEW T, T \subseteq Nat, T # {}
    PROVE  \E x \in T : \A y \in T : x <= y
<1>1. PICK x \in T : \A y \in T : <<y, x>> \notin OpToRel(<, Nat)
  BY NatLessThanWellFounded, WFMin, Zenon
<1>2. \A y \in T : ~(y < x)
  BY <1>1, Zenon DEF OpToRel
<1>3. x \in Nat /\ \A y \in T : y \in Nat
  BY Zenon
<1> QED
  BY <1>2, <1>3

(* try_pick finds a connection of the pool. *)
LEMMA LeastIsInPool ==
    ASSUME TypeOK, NEW k \in Calls, NEW near
    PROVE  Least(k, near) \in Connections
<1> DEFINE order == <<Primary>> \o (IF Spread(k, near) THEN added ELSE <<>>)
           n(i) == Cardinality(On(order[i]))
           IsLeast(i) == \A j \in DOMAIN order : n(i) < n(j) \/ (n(i) = n(j) /\ i <= j)
           least == CHOOSE i \in DOMAIN order : IsLeast(i)
<1>1. order \in Seq(Ids) /\ Len(order) >= 1 /\ Range(order) \subseteq Connections
  <2>1. CASE Spread(k, near)
    BY <2>1, Idx DEF TypeOK, Connections, Range
  <2>2. CASE ~Spread(k, near)
    BY <2>2, Idx DEF TypeOK, Connections, Range
  <2> QED
    BY <2>1, <2>2, Zenon
<1>2. \A i \in DOMAIN order : n(i) \in Nat
  BY PoolAssumption, FS_Subset, FS_CardinalityType, Zenon DEF On
<1>3. \E i \in DOMAIN order : IsLeast(i)
  <2> DEFINE counts == {n(i) : i \in DOMAIN order}
  <2>1. counts \subseteq Nat /\ counts # {}
    BY <1>1, <1>2
  <2>2. PICK m \in counts : \A y \in counts : m <= y
    BY <2>1, LeastNat, Zenon
  <2> DEFINE places == {i \in DOMAIN order : n(i) = m}
  <2>3. places \subseteq Nat /\ places # {}
    BY <1>1, <2>2
  <2>4. PICK i \in places : \A y \in places : i <= y
    BY <2>3, LeastNat, Zenon
  <2>5. ASSUME NEW j \in DOMAIN order PROVE n(i) < n(j) \/ (n(i) = n(j) /\ i <= j)
    <3>1. n(j) \in counts /\ n(i) = m /\ m \in Nat /\ n(j) \in Nat
      BY <1>2, <2>1, <2>2, <2>4, Zenon
    <3>2. m <= n(j)
      BY <2>2, <3>1, Zenon
    <3>3. CASE n(j) = m
      BY <2>4, <3>1, <3>3, Zenon
    <3>4. CASE n(j) # m
      BY <3>1, <3>2, <3>4
    <3> QED
      BY <3>3, <3>4, Zenon
  <2> QED
    BY <2>4, <2>5, Zenon
<1>4. least \in DOMAIN order
  BY <1>3, Zenon
<1>5. order[least] \in Connections
  BY <1>1, <1>4, Zenon DEF Range
<1> QED
  BY <1>5, Zenon DEF Least
-----------------------------------------------------------------------------
(* What a step may do to the calls: one comes to fly only on a connection of the pool, ... *)
Boards ==
    \A k \in Calls : call'[k].phase \in {"growing", "flying"} =>
        \/ call[k].phase \in {"growing", "flying"} /\ call'[k].at = call[k].at
        \/ call[k].phase = "picking" /\ call'[k].at \in Connections

(* ... sleeps only while a dial is in flight, and none begins in a pool that is gone. *)
Sleeps ==
    \A k \in Calls : call'[k].phase = "waiting" => call[k].phase = "waiting" \/ (inFlight /\ UNCHANGED dials)
Starts ==
    \A k \in Calls : (dropped /\ call[k].phase \in {"new", "flying", "done"}) =>
        call'[k].phase \in {"new", "flying", "done"}

Moves == call' \in [Calls -> CallStates] /\ Boards /\ Sleeps /\ Starts

(* A step of one call, to state r. *)
LEMMA OneMoves ==
    ASSUME TypeOK, NEW k \in Calls, NEW r \in CallStates, call' = [call EXCEPT ![k] = r],
           r.phase \in {"growing", "flying"} =>
               \/ call[k].phase \in {"growing", "flying"} /\ r.at = call[k].at
               \/ call[k].phase = "picking" /\ r.at \in Connections,
           r.phase = "waiting" => call[k].phase = "waiting" \/ (inFlight /\ UNCHANGED dials),
           (dropped /\ call[k].phase \in {"new", "flying", "done"}) => r.phase \in {"new", "flying", "done"}
    PROVE  Moves
  BY Zenon DEF TypeOK, Moves, Boards, Sleeps, Starts

(* A call that changes its phase, and perhaps its patience. *)
LEMMA Phased ==
    ASSUME NEW r \in CallStates, NEW p \in CallPhases
    PROVE  /\ [r EXCEPT !.phase = p] \in CallStates
           /\ [r EXCEPT !.phase = p].phase = p /\ [r EXCEPT !.phase = p].at = r.at
  BY Zenon DEF CallStates

(* A call's own steps, and what they leave alone. *)
LEMMA CallSteps ==
    ASSUME TypeOK, NEW k \in Calls,
           \/ Picks(k) \/ Runs(k) \/ Expire(k) \/ Abandon(k)
           \/ \E streaming \in BOOLEAN, load \in 0..(MaxConns - 1) : Start(k, streaming, load)
    PROVE  Moves /\ UNCHANGED <<conn, added, watcher, dropped>>
<1>0. call \in [Calls -> CallStates]
  BY Zenon DEF TypeOK
<1> USE PoolAssumption, Idx
<1>1. ASSUME NEW near \in SUBSET Connections, Decline(k, near)
      PROVE  Moves /\ UNCHANGED <<conn, added, watcher, dropped>>
  BY <1>1, ZenonT(30)
     DEF Decline, TypeOK, CallStates, CallPhases, conns, dials, Moves, Boards, Sleeps, Starts
<1>2. ASSUME NEW near \in SUBSET Connections, Pick(k, near)
      PROVE  Moves /\ UNCHANGED <<conn, added, watcher, dropped>>
  <2>1. Least(k, near) \in Connections /\ Least(k, near) \in Ids
    BY LeastIsInPool DEF TypeOK, Connections, Range
  <2> QED
    BY <1>2, <2>1, ZenonT(30)
       DEF Pick, TypeOK, CallStates, CallPhases, NewCall, conns, dials, Moves, Boards, Sleeps, Starts
<1>3. ASSUME NEW p \in {"armed", "picking", "waiting"}, call' = [call EXCEPT ![k].phase = p],
             call[k].phase \in {"declined", "armed", "woken"}, p = "waiting" => inFlight,
             UNCHANGED <<conns, dials, dropped>>
      PROVE  Moves /\ UNCHANGED <<conn, added, watcher, dropped>>
  <2> DEFINE r == [call[k] EXCEPT !.phase = p]
  <2>1. p \in CallPhases /\ call[k] \in CallStates
    BY <1>0, Zenon DEF CallPhases
  <2>2. r \in CallStates /\ r.phase = p
    BY <2>1, Phased, Zenon
  <2>3. call' = [call EXCEPT ![k] = r]
    BY <1>0, <1>3, Zenon
  <2> HIDE DEF r
  <2>4. /\ r.phase \notin {"growing", "flying"} /\ call[k].phase \notin {"new", "flying", "done"}
        /\ r.phase = "waiting" => inFlight /\ UNCHANGED dials
    BY <1>3, <2>2, Zenon
  <2>5. Moves
    BY <2>2, <2>3, <2>4, OneMoves, Zenon
  <2> QED
    BY <1>3, <2>5, Zenon DEF conns
<1>4. CASE Register(k) \/ LookAgain(k) \/ Wake(k)
  BY <1>3, <1>4, Zenon DEF Register, LookAgain, Wake
<1>5. CASE GrowAfterPick(k)
  BY <1>5, ZenonT(30)
     DEF GrowAfterPick, TypeOK, CallStates, CallPhases, conns, dials, Moves, Boards, Sleeps, Starts
<1>6. CASE End(k) \/ Abandon(k)
  <2> DEFINE r == [NewCall EXCEPT !.phase = "done"]
  <2>1. r \in CallStates /\ r.phase = "done"
    BY Zenon DEF NewCall, CallStates, CallPhases
  <2>2. call' = [call EXCEPT ![k] = r]
    BY <1>6, Zenon DEF End, Abandon
  <2> HIDE DEF r
  <2>3. Moves
    BY <2>1, <2>2, OneMoves, Zenon
  <2> QED
    BY <1>6, <2>3, Zenon DEF End, Abandon, conns
<1>7. CASE Expire(k)
  <2> DEFINE r == [call[k] EXCEPT !.patient = FALSE, !.phase = IF @ = "waiting" THEN "picking" ELSE @]
  <2>1. /\ r \in CallStates /\ r.phase = IF call[k].phase = "waiting" THEN "picking" ELSE call[k].phase
    BY <1>0, ZenonT(30) DEF CallStates, CallPhases
  <2>2. call' = [call EXCEPT ![k] = r]
    BY <1>0, <1>7, Zenon DEF Expire
  <2> HIDE DEF r
  <2>3. call[k].phase \in {"picking", "declined", "armed", "waiting", "woken"}
    BY <1>7, Zenon DEF Expire
  <2>4. r.phase \in {"picking", "declined", "armed", "woken"}
    BY <2>1, <2>3, Zenon
  <2>5. Moves
    BY <2>1, <2>2, <2>3, <2>4, OneMoves, Zenon
  <2> QED
    BY <1>7, <2>5, Zenon DEF Expire, conns
<1>8. ASSUME NEW streaming \in BOOLEAN, NEW load \in 0..(MaxConns - 1), Start(k, streaming, load)
      PROVE  Moves /\ UNCHANGED <<conn, added, watcher, dropped>>
  BY <1>8 DEF Start, TypeOK, CallStates, CallPhases, conns, dials, Moves, Boards, Sleeps, Starts
<1> QED
  BY <1>1, <1>2, <1>3, <1>4, <1>5, <1>6, <1>7, <1>8, Zenon DEF Picks, Runs
(* The dial's task, the watchers and the channel leave the calls alone, or wake them. *)
LEMMA OtherSteps ==
    ASSUME TypeOK, \/ ExtraDials \/ (\E c \in Ids : Watches(c) \/ IdleTick(c) \/ LoseConn(c))
                   \/ ClosePool \/ Drop \/ UNCHANGED poolVars
    PROVE  Moves
<1>1. CASE UNCHANGED call
  BY <1>1, Zenon DEF TypeOK, Moves, Boards, Sleeps, Starts
<1>2. CASE call' = Woken
  <2>1. call' \in [Calls -> CallStates]
    BY <1>2, SMTT(60) DEF Woken, TypeOK, CallStates, CallPhases
  <2>2. \A k \in Calls : \/ call'[k] = call[k]
                         \/ call'[k].phase = "woken" /\ call[k].phase \in {"armed", "waiting"}
    BY <1>2, Zenon DEF Woken, TypeOK, CallStates
  <2> QED
    BY <2>1, <2>2, Zenon DEF Moves, Boards, Sleeps, Starts
<1>3. UNCHANGED call \/ call' = Woken
  BY Zenon DEF ExtraDials, DialSucceeds, ExtraDialFails, ClearInFlight, QuitDialing, ClearDialing, NotifyAdded,
     NotifyFailed,
     Resume, Watches, WatchClosed, Retire, StopWatching, RegisterDrain, CountDrain, WakeDrain, IdleTick,
     LoseConn, ClosePool, Drop, poolVars
<1> QED
  BY <1>1, <1>2, <1>3, Zenon

-----------------------------------------------------------------------------
(* A watcher's step, and those of a connection, one at a time. *)
Members == <<conn, added, watcher, dropped>>

(* Every step keeps the list, the watchers and the connections together. *)
LEMMA MemberStep ==
    ASSUME TypeOK, MemberInv, [PoolNext]_poolVars
    PROVE  /\ conn' \in [Ids -> {"none", "open", "lost", "retired"}] /\ watcher' \in [Ids -> WatcherStates]
           /\ added' \in Seq(Ids \ {Primary})
           /\ MemberInv'
<1> DEFINE Goal == /\ conn' \in [Ids -> {"none", "open", "lost", "retired"}]
                   /\ watcher' \in [Ids -> WatcherStates]
                   /\ added' \in Seq(Ids \ {Primary})
                   /\ MemberInv'
<1> USE Idx, PoolAssumption DEF Watching, WatcherStates
<1>1. CASE UNCHANGED Members
  BY <1>1, Zenon DEF Members, TypeOK, MemberInv, AddedOnce, Open
<1>2. ASSUME NEW c \in Ids, conn[c] = "none", AddConn(c), UNCHANGED dropped PROVE Goal
  <2>1. c \notin Range(added) /\ c # Primary
    BY <1>2, Zenon DEF MemberInv
  <2>2. CASE Open >= MaxConns \/ dropped
    BY <1>2, <2>1, <2>2, ZenonT(30) DEF AddConn, TypeOK, MemberInv, AddedOnce, Open
  <2>3. CASE ~(Open >= MaxConns \/ dropped)
    <3>1. /\ added' = Append(added, c) /\ conn' = [conn EXCEPT ![c] = "open"]
          /\ watcher' = [watcher EXCEPT ![c] = "watching"]
      BY <1>2, <2>3, Zenon DEF AddConn
    <3>2. /\ added' \in Seq(Ids \ {Primary}) /\ Len(added') = Len(added) + 1
          /\ Range(added') = Range(added) \cup {c} /\ AddedOnce'
      BY <2>1, <3>1, Adding DEF TypeOK, MemberInv
    <3>3. Open' <= MaxConns
      BY <2>3, <3>2 DEF Open, TypeOK
    <3> QED
      BY <1>2, <2>1, <3>1, <3>2, <3>3, Zenon DEF TypeOK, MemberInv
  <2> QED
    BY <2>2, <2>3, Zenon
<1>3. ASSUME NEW c \in Ids, NEW w \in {"done", "draining"}, watcher[c] \in {"watching", "retiring"},
             Forget(c), watcher' = [watcher EXCEPT ![c] = w], UNCHANGED dropped,
             conn' = conn \/ conn' = [conn EXCEPT ![c] = IF @ = "open" THEN "retired" ELSE @]
      PROVE  Goal
  <2>1. /\ added' \in Seq(Ids \ {Primary}) /\ Len(added') <= Len(added)
        /\ Range(added') = Range(added) \ {c} /\ AddedOnce'
    BY <1>3, Forgetting, Zenon DEF TypeOK, MemberInv
  <2>2. Open' <= MaxConns
    BY <2>1 DEF Open, TypeOK, MemberInv
  <2> QED
    BY <1>3, <2>1, <2>2, SMTT(30) DEF TypeOK, MemberInv
<1>4. CASE DialSucceeds
  BY <1>2, <1>4, Zenon DEF DialSucceeds
<1>5. ASSUME NEW c \in Ids, WatchClosed(c) PROVE Goal
  <2>1. CASE watcher[c] = "watching" /\ ~dropped
    BY <1>3, <1>5, <2>1, Zenon DEF WatchClosed
  <2>2. CASE ~(watcher[c] = "watching" /\ ~dropped)
    BY <1>5, <2>2, Zenon DEF WatchClosed, TypeOK, MemberInv, AddedOnce, Open
  <2> QED
    BY <2>1, <2>2, Zenon
<1>6. ASSUME NEW c \in Ids, Retire(c) PROVE Goal
  <2>1. CASE On(c) = {}
    BY <1>3, <1>6, <2>1, Zenon DEF Retire
  <2>2. CASE On(c) # {}
    BY <1>6, <2>2, SMTT(30) DEF Retire, TypeOK, MemberInv, AddedOnce, Open
  <2> QED
    BY <2>1, <2>2, Zenon
<1>7. ASSUME NEW c \in Ids, StopWatching(c) PROVE Goal
  <2>1. CASE ~dropped
    BY <1>3, <1>7, <2>1, Zenon DEF StopWatching
  <2>2. CASE dropped
    BY <1>7, <2>2, Zenon DEF StopWatching, TypeOK, MemberInv, AddedOnce, Open
  <2> QED
    BY <2>1, <2>2, Zenon
<1>8. ASSUME NEW c \in Ids, RegisterDrain(c) \/ WakeDrain(c) \/ IdleTick(c) PROVE Goal
  BY <1>8, SMTT(30) DEF RegisterDrain, WakeDrain, IdleTick, TypeOK, MemberInv, AddedOnce, Open
<1>9. ASSUME NEW c \in Ids, CountDrain(c) PROVE Goal
  BY <1>9, SMTT(30) DEF CountDrain, TypeOK, MemberInv, AddedOnce, Open
<1>10. ASSUME NEW c \in Ids, LoseConn(c) PROVE Goal
  BY <1>10, Zenon DEF LoseConn, TypeOK, MemberInv, AddedOnce, Open
<1>11. CASE ClosePool
  BY <1>11 DEF ClosePool, TypeOK, MemberInv, AddedOnce, Open
<1>12. CASE Drop
  BY <1>12, ZenonT(30) DEF Drop, conns, TypeOK, MemberInv, AddedOnce, Open
<1>13. CASE ExtraDialFails \/ ClearInFlight \/ QuitDialing \/ ClearDialing \/ NotifyAdded \/ NotifyFailed \/ Resume
            \/ UNCHANGED poolVars
  BY <1>1, <1>13, Zenon
     DEF ExtraDialFails, ClearInFlight, QuitDialing, ClearDialing, NotifyAdded, NotifyFailed, Resume, poolVars,
     conns, Members
<1>14. ASSUME NEW k \in Calls,
              \/ Picks(k) \/ Runs(k) \/ Expire(k) \/ Abandon(k)
              \/ \E streaming \in BOOLEAN, load \in 0..(MaxConns - 1) : Start(k, streaming, load)
       PROVE  Goal
  BY <1>1, <1>14, CallSteps, Zenon DEF Members
<1> QED
  BY <1>4, <1>5, <1>6, <1>7, <1>8, <1>9, <1>10, <1>11, <1>12, <1>13, <1>14, Zenon DEF PoolNext, ExtraDials, Watches

(* A connection is retired only when it has no calls, and none is dialed again. *)
LEMMA ConnStep ==
    ASSUME TypeOK, CallInv, [PoolNext]_poolVars
    PROVE  \A c \in Ids :
               /\ conn'[c] = "none" => conn[c] = "none"
               /\ conn'[c] = "retired" => conn[c] = "retired" \/ (On(c) = {} /\ UNCHANGED call)
<1> DEFINE Goal == \A c \in Ids :
               /\ conn'[c] = "none" => conn[c] = "none"
               /\ conn'[c] = "retired" => conn[c] = "retired" \/ (On(c) = {} /\ UNCHANGED call)
<1>1. CASE DialSucceeds
  <2>1. PICK c \in Ids : conn[c] = "none" /\ AddConn(c)
    BY <1>1, Zenon DEF DialSucceeds
  <2>2. On(c) = {}
    BY <2>1, Zenon DEF CallInv, On
  <2>3. conn' = [conn EXCEPT ![c] = "retired"] \/ conn' = [conn EXCEPT ![c] = "open"]
    BY <2>1, Zenon DEF AddConn
  <2>4. UNCHANGED call
    BY <1>1, Zenon DEF DialSucceeds
  <2> QED
    BY <2>2, <2>3, <2>4, Zenon DEF TypeOK
<1>2. ASSUME NEW c \in Ids, Retire(c) \/ CountDrain(c) PROVE Goal
  BY <1>2, Zenon DEF Retire, CountDrain, TypeOK
<1>3. ASSUME NEW c \in Ids, LoseConn(c) PROVE Goal
  BY <1>3, Zenon DEF LoseConn, TypeOK
<1>4. CASE ClosePool
  BY <1>4, Zenon DEF ClosePool, TypeOK
<1>5. ASSUME NEW c \in Ids,
       WatchClosed(c) \/ StopWatching(c) \/ RegisterDrain(c) \/ WakeDrain(c) \/ IdleTick(c)
      PROVE  UNCHANGED conn
  BY <1>5, Zenon DEF WatchClosed, StopWatching, RegisterDrain, WakeDrain, IdleTick
<1>6. ASSUME NEW k \in Calls,
             \/ Picks(k) \/ Runs(k) \/ Expire(k) \/ Abandon(k)
             \/ \E streaming \in BOOLEAN, load \in 0..(MaxConns - 1) : Start(k, streaming, load)
      PROVE  UNCHANGED conn
  BY <1>6, CallSteps, Zenon
<1>7. CASE ExtraDialFails \/ ClearInFlight \/ QuitDialing \/ ClearDialing \/ NotifyAdded \/ NotifyFailed \/ Resume
           \/ Drop \/ UNCHANGED poolVars
  BY <1>7, Zenon
     DEF ExtraDialFails, ClearInFlight, QuitDialing, ClearDialing, NotifyAdded, NotifyFailed, Resume, Drop,
     poolVars,
     conns
<1>8. CASE UNCHANGED conn
  BY <1>8, Zenon
<1> QED
  BY <1>1, <1>2, <1>3, <1>4, <1>5, <1>6, <1>7, <1>8, Zenon DEF PoolNext, ExtraDials, Watches

(* A dial that calls may wait for stays one, until it has notified them. *)
Awaited == inFlight \/ notifying > 0 \/ dialer \in {"cleared", "cleared failed"}
Dialed ==
    /\ dialer' \in DialerStates /\ notifying' \in Nat
    /\ (Awaited => Awaited' \/ \A k \in Calls : call'[k].phase # "waiting")

(* Every step keeps the dial that calls wait for, or wakes them. *)
LEMMA DialStep ==
    ASSUME TypeOK, [PoolNext]_poolVars
    PROVE  Dialed
<1>1. CASE UNCHANGED dials
  BY <1>1, Zenon DEF dials, TypeOK, Dialed, Awaited
<1>2. CASE Grow
  <2>1. CASE dialing
    BY <1>2, <2>1, Zenon DEF Grow, TypeOK, Dialed, Awaited
  <2>2. CASE ~dialing
    BY <1>2, <2>2, Zenon DEF Grow, TypeOK, DialerStates, Dialed, Awaited
  <2> QED
    BY <2>1, <2>2, Zenon
<1>3. CASE call' = Woken /\ dialer' \in DialerStates /\ notifying' \in Nat
  <2>1. \A k \in Calls : call'[k].phase # "waiting"
    BY <1>3, Zenon DEF Woken, TypeOK, CallStates
  <2> QED
    BY <1>3, <2>1, Zenon DEF Dialed
<1>4. CASE ExtraDials
  <2>1. CASE DialSucceeds \/ ExtraDialFails
    <3>1. /\ dialer = "dialing" /\ dialer' \in {"added", "failed"}
          /\ UNCHANGED inFlight /\ UNCHANGED notifying
      BY <2>1, Zenon DEF DialSucceeds, ExtraDialFails
    <3> QED
      BY <3>1, Zenon DEF TypeOK, DialerStates, Dialed, Awaited
  <2>2. CASE ClearInFlight
    BY <2>2, Zenon DEF ClearInFlight, TypeOK, DialerStates, Dialed, Awaited
  <2>3. CASE QuitDialing
    BY <2>3, Zenon DEF QuitDialing, TypeOK, DialerStates, Dialed, Awaited
  <2>4. CASE ClearDialing
    BY <2>4 DEF ClearDialing, TypeOK, DialerStates, Dialed, Awaited
  <2>5. CASE NotifyAdded
    <3>1. notifying' \in Nat
      BY <2>5 DEF NotifyAdded, TypeOK
    <3> QED
      BY <1>3, <2>5, <3>1, Zenon DEF NotifyAdded, TypeOK
  <2>7. CASE NotifyFailed
    <3>1. dialer' \in DialerStates
      BY <2>7, Zenon DEF NotifyFailed, DialerStates
    <3> QED
      BY <1>3, <2>7, <3>1, Zenon DEF NotifyFailed, TypeOK
  <2>6. CASE Resume
    BY <2>6, Zenon DEF Resume, TypeOK, DialerStates, Dialed, Awaited
  <2> QED
    BY <1>4, <2>1, <2>2, <2>3, <2>4, <2>5, <2>6, <2>7, Zenon DEF ExtraDials
<1>5. ASSUME NEW k \in Calls, NEW near, Decline(k, near) \/ Pick(k, near) PROVE Grow \/ UNCHANGED dials
  BY <1>5, Zenon DEF Decline, Pick
<1>6. ASSUME NEW k \in Calls, GrowAfterPick(k) PROVE Grow
  BY <1>6, Zenon DEF GrowAfterPick
<1>7. ASSUME NEW k \in Calls,
             \/ Register(k) \/ LookAgain(k) \/ Wake(k) \/ End(k) \/ Expire(k) \/ Abandon(k)
             \/ \E streaming \in BOOLEAN, load \in 0..(MaxConns - 1) : Start(k, streaming, load)
      PROVE  UNCHANGED dials
  BY <1>7, Zenon DEF Register, LookAgain, Wake, End, Expire, Abandon, Start
<1>8. ASSUME NEW c \in Ids, Watches(c) \/ IdleTick(c) \/ LoseConn(c) PROVE UNCHANGED dials
  BY <1>8, Zenon
     DEF Watches, WatchClosed, Retire, StopWatching, RegisterDrain, CountDrain, WakeDrain, IdleTick, LoseConn
<1>9. CASE ClosePool \/ Drop \/ UNCHANGED poolVars
  BY <1>1, <1>9, Zenon DEF ClosePool, Drop, poolVars, dials
<1> QED
  BY <1>1, <1>2, <1>4, <1>5, <1>6, <1>7, <1>8, <1>9, Zenon DEF PoolNext, Picks, Runs

-----------------------------------------------------------------------------
(* The invariant holds in every state of the pool, its calls and its tasks. *)
THEOREM PoolInvariant == PoolSpec => []PoolInv
<1>1. PoolInit => PoolInv
  <2> SUFFICES ASSUME PoolInit PROVE PoolInv
    BY Zenon
  <2>1. PICK others \in 0..(MinConns - 1) :
            /\ conn = [c \in Ids |-> IF c <= others THEN "open" ELSE "none"]
            /\ added = [i \in 1..others |-> i]
            /\ watcher = [c \in Ids |-> IF c \in 1..others THEN "watching" ELSE "none"]
    BY Zenon DEF PoolInit
  <2>2. call = [k \in Calls |-> NewCall] /\ dialer = "none" /\ notifying = 0
    BY Zenon DEF PoolInit
  <2>3. ~dropped
    BY Zenon DEF PoolInit
  <2>4. others \in Nat /\ others + 1 <= MaxConns /\ 1..others \subseteq Ids \ {Primary}
    BY <2>1, PoolAssumption DEF Ids, Primary
  <2>5. added \in Seq(1..others) /\ Len(added) = others /\ Range(added) = 1..others /\ AddedOnce
    BY <2>1, <2>4 DEF Range, AddedOnce
  <2>6. added \in Seq(Ids \ {Primary})
    BY <2>4, <2>5, SeqMonotonic, Zenon
  <2>7. TypeOK
    BY <2>1, <2>2, <2>6, Idx, Zenon
       DEF TypeOK, WatcherStates, Watching, CallStates, CallPhases, NewCall, DialerStates
  <2>8. MemberInv
    BY <2>1, <2>3, <2>4, <2>5, Idx DEF MemberInv, Open, Watching, Primary
  <2>9. CallInv /\ RetiredIsIdle /\ NoMissedDial
    BY <2>1, <2>2, <2>3, Idx, Zenon DEF CallInv, RetiredIsIdle, NoMissedDial, NewCall, On
  <2> QED
    BY <2>7, <2>8, <2>9, Zenon DEF PoolInv
<1>2. PoolInv /\ [PoolNext]_poolVars => PoolInv'
  <2> SUFFICES ASSUME PoolInv, [PoolNext]_poolVars PROVE PoolInv'
    BY Zenon
  <2> USE DEF PoolInv
  <2>1. Moves
    BY CallSteps, OtherSteps, Zenon DEF PoolNext
  <2>2. TypeOK' /\ MemberInv'
    BY <2>1, MemberStep, DialStep, Zenon DEF TypeOK, Moves, Dialed
  <2>3. CallInv'
    <3>1. ASSUME NEW k \in Calls, call'[k].phase \in {"growing", "flying"} PROVE conn'[call'[k].at] # "none"
      <4>1. CASE call[k].phase \in {"growing", "flying"} /\ call'[k].at = call[k].at
        BY <4>1, ConnStep DEF CallInv, TypeOK, CallStates
      <4>2. CASE call'[k].at \in Connections
        <5>1. conn[call'[k].at] # "none" /\ call'[k].at \in Ids
          BY <4>2, Idx DEF MemberInv, TypeOK, Connections, Range
        <5> QED
          BY <5>1, ConnStep, Zenon
      <4> QED
        BY <2>1, <3>1, <4>1, <4>2, Zenon DEF Moves, Boards
    <3>2. ASSUME NEW k \in Calls, dropped' PROVE call'[k].phase \in {"new", "flying", "done"}
      <4>1. CASE dropped
        BY <2>1, <4>1, Zenon DEF CallInv, Moves, Starts
      <4>2. CASE ~dropped
        <5>1. Drop
          BY <3>2, <4>2, CallSteps, Zenon
             DEF PoolNext, ExtraDials, DialSucceeds, ExtraDialFails, ClearInFlight, QuitDialing, ClearDialing,
             NotifyAdded, NotifyFailed, Resume, Watches, WatchClosed, Retire, StopWatching, RegisterDrain,
             CountDrain, WakeDrain, IdleTick, LoseConn, ClosePool, poolVars
        <5> QED
          BY <5>1, Zenon DEF Drop
      <4> QED
        BY <4>1, <4>2, Zenon
    <3> QED
      BY <3>1, <3>2, Zenon DEF CallInv
  <2>4. RetiredIsIdle'
    <3> SUFFICES ASSUME NEW c \in Ids, conn'[c] = "retired", NEW k \in Calls,
                        call'[k].phase \in {"growing", "flying"}, call'[k].at = c
                 PROVE  FALSE
      BY Zenon DEF RetiredIsIdle, On
    <3>1. conn[c] = "retired"
      BY ConnStep, Zenon DEF On
    <3>2. On(c) = {}
      BY <3>1, Zenon DEF RetiredIsIdle
    <3>3. call[k].phase = "picking" /\ c \in Connections
      BY <2>1, <3>2, Zenon DEF Moves, Boards, On
    <3>4. ~dropped
      BY <3>3, Zenon DEF CallInv
    <3> QED
      BY <3>1, <3>3, <3>4, Zenon DEF MemberInv, Connections
  <2>5. NoMissedDial'
    <3> SUFFICES ASSUME NEW k \in Calls, call'[k].phase = "waiting" PROVE Awaited'
      BY Zenon DEF NoMissedDial, Awaited
    <3>1. CASE call[k].phase = "waiting"
      <4>1. Awaited
        BY <3>1, Zenon DEF NoMissedDial, Awaited
      <4> QED
        BY <4>1, DialStep, Zenon DEF Dialed
    <3>2. CASE inFlight /\ UNCHANGED dials
      BY <3>2, Zenon DEF Awaited, dials
    <3> QED
      BY <2>1, <3>1, <3>2, Zenon DEF Moves, Sleeps
  <2> QED
    BY <2>2, <2>3, <2>4, <2>5, Zenon
<1> QED
  BY <1>1, <1>2, PTL DEF PoolSpec

(* For any calls, connections and limit: the pool keeps no more connections than its limit and  *)
(* none twice, no connection is retired while a call runs on it, and no call sleeps through the *)
(* dial it waits for (client/pool.rs, add, retire_if_idle, pick).                               *)
THEOREM PoolKeepsItsCalls == PoolSpec => []PoolKeepsCalls
<1>1. PoolInv => PoolBounded
  <2> SUFFICES ASSUME PoolInv PROVE PoolBounded
    BY Zenon
  <2> DEFINE kept == {c \in Ids \ {Primary} : conn[c] = "open" /\ watcher[c] \in {"watching", "retiring"}}
  <2>1. kept \subseteq Range(added)
    BY Zenon DEF PoolInv, MemberInv, Watching
  <2>2. IsFiniteSet(Range(added)) /\ Cardinality(Range(added)) <= Len(added)
    BY RangeIsSmall, Zenon DEF PoolInv, TypeOK
  <2>3. Cardinality(kept) \in Nat /\ Cardinality(kept) <= Cardinality(Range(added))
    BY <2>1, <2>2, FS_Subset, FS_CardinalityType, Zenon
  <2>4. Cardinality(Range(added)) \in Nat /\ Len(added) \in Nat /\ Len(added) + 1 <= MaxConns
    BY <2>2, FS_CardinalityType DEF PoolInv, TypeOK, MemberInv, Open
  <2>5. Cardinality(kept) < MaxConns
    BY <2>2, <2>3, <2>4, PoolAssumption
  <2> QED
    BY <2>4, <2>5, Zenon DEF PoolBounded, Open
<1>2. PoolInv => AddedOnce /\ RetiredIsIdle /\ NoMissedDial
  BY Zenon DEF PoolInv, MemberInv
<1> QED
  BY <1>1, <1>2, PoolInvariant, PTL DEF PoolKeepsCalls

=============================================================================
