------------------------------- MODULE Admission -------------------------------
(***************************************************************************)
(* The rate limiter in front of the handshake handler                      *)
(* (peer/rate_limit.rs), called by many requests at once.                  *)
(*                                                                         *)
(* check_handshake reads the clock before it takes any lock.  It then has  *)
(* two lock sections: one on the deques of the pairs (remote address,      *)
(* device id), one on the deque of all.  A call that the second refuses    *)
(* takes its stamp back from the first by popping the last one, with the   *)
(* lock of the second still held.  So calls may enter a section in another *)
(* order than that of their clocks, and a section of one call may fall     *)
(* between the two of another.                                             *)
(*                                                                         *)
(* A stamp is written as the call it belongs to, whose clock is at[c].     *)
(***************************************************************************)
EXTENDS Naturals, FiniteSets, Sequences

CONSTANTS
    Pairs,      \* pairs of a remote address and a device id
    Calls,      \* calls of check_handshake, each made once
    MaxPair,    \* MAX_PER_PAIR_IN_WINDOW (3 in the code)
    MaxGlobal,  \* MAX_GLOBAL_IN_WINDOW (10 in the code)
    Window,     \* WINDOW_SECS
    MaxClock    \* bound on the clock

ASSUME LimitAssumption ==
    /\ MaxPair \in Nat \ {0} /\ MaxGlobal \in Nat \ {0} /\ Window \in Nat \ {0}
    /\ MaxClock \in Nat
    /\ IsFiniteSet(Calls)

VARIABLES
    clock,      \* Instant::now
    state,      \* state[c]: the section c comes to next, or its decision
    pair,       \* pair[c]: (remote_ip, device_id) of c
    at,         \* at[c]: now of c
    perPair,    \* perPair[p]: the deque of p in per_pair
    global,     \* the deque global
    late,       \* history: sections some call entered after one with a later clock
    misrolled   \* history: a call took back the stamp of another one

limiterVars == <<clock, state, pair, at, perPair, global, late, misrolled>>

States == {"none", "pair", "global", "rollback", "allowed", "pair_full", "global_full"}

LimiterInit ==
    /\ clock = 0
    /\ state = [c \in Calls |-> "none"]
    /\ pair \in [Calls -> Pairs]
    /\ at = [c \in Calls |-> 0]
    /\ perPair = [p \in Pairs |-> <<>>] /\ global = <<>>
    /\ late = {} /\ misrolled = FALSE

-----------------------------------------------------------------------------
(* Time passes, also while calls wait for a lock.                          *)
Tick ==
    /\ clock < MaxClock /\ clock' = clock + 1
    /\ UNCHANGED <<state, pair, at, perPair, global, late, misrolled>>

(* A request comes in; the call reads the clock.                           *)
Begin(c) ==
    /\ state[c] = "none" /\ state' = [state EXCEPT ![c] = "pair"]
    /\ at' = [at EXCEPT ![c] = clock]
    /\ UNCHANGED <<clock, pair, perPair, global, late, misrolled>>

(* Mutants of Expired: the window is one tick short, or one tick long.     *)
ExpiredEarly(c, now) == at[c] + Window <= now + 1
ExpiredLate(c, now)  == at[c] + Window < now

(* now.duration_since(t) >= window, with a duration that is never negative.*)
Expired(c, now) == at[c] + Window <= now

(* What is left of a deque when the loop has popped the expired stamps in  *)
(* front: the only member of this set.                                     *)
Unexpired(q, now) ==
    {SubSeq(q, k + 1, Len(q)) : k \in
        {n \in 0..Len(q) : /\ \A i \in 1..n : Expired(q[i], now)
                           /\ n < Len(q) => ~Expired(q[n + 1], now)}}

(* A call with a later clock has been in the section already.              *)
Overtaken(c, past) == \E d \in Calls : state[d] \in past /\ at[d] > at[c]
PastPair   == {"global", "rollback", "allowed", "pair_full", "global_full"}
PastGlobal == {"rollback", "allowed", "global_full"}

(* The section on per_pair.                                                *)
PairSection(c) ==
    /\ state[c] = "pair"
    /\ \E kept \in Unexpired(perPair[pair[c]], at[c]) :
          \/ /\ Len(kept) >= MaxPair
             /\ perPair' = [perPair EXCEPT ![pair[c]] = kept]
             /\ state' = [state EXCEPT ![c] = "pair_full"]
          \/ /\ Len(kept) < MaxPair
             /\ perPair' = [perPair EXCEPT ![pair[c]] = Append(kept, c)]
             /\ state' = [state EXCEPT ![c] = "global"]
    /\ late' = late \cup IF Overtaken(c, PastPair) THEN {"pair"} ELSE {}
    /\ UNCHANGED <<clock, pair, at, global, misrolled>>

(* The section on global up to the roll-back; a call that rolls back holds *)
(* this lock.                                                              *)
GlobalSection(c) ==
    /\ state[c] = "global" /\ \A d \in Calls : state[d] # "rollback"
    /\ \E kept \in Unexpired(global, at[c]) :
          \/ /\ Len(kept) >= MaxGlobal
             /\ global' = kept
             /\ state' = [state EXCEPT ![c] = "rollback"]
          \/ /\ Len(kept) < MaxGlobal
             /\ global' = Append(kept, c)
             /\ state' = [state EXCEPT ![c] = "allowed"]
    /\ late' = late \cup IF Overtaken(c, PastGlobal) THEN {"global"} ELSE {}
    /\ UNCHANGED <<clock, pair, at, perPair, misrolled>>

(* Mutant of RollBack: the stamp is left where it is.                      *)
RollBackNothing(c) ==
    /\ state[c] = "rollback" /\ state' = [state EXCEPT ![c] = "global_full"]
    /\ UNCHANGED <<clock, pair, at, perPair, global, late, misrolled>>

(* The last stamp of the pair is popped, whoever pushed it.                *)
RollBack(c) ==
    LET q == perPair[pair[c]] IN
    /\ state[c] = "rollback" /\ state' = [state EXCEPT ![c] = "global_full"]
    /\ perPair' = [perPair EXCEPT ![pair[c]] = SubSeq(q, 1, Len(q) - 1)]
    /\ misrolled' = (misrolled \/ (q # <<>> /\ q[Len(q)] # c))
    /\ UNCHANGED <<clock, pair, at, global, late>>

Check(c) == Begin(c) \/ PairSection(c) \/ GlobalSection(c) \/ RollBack(c)
LimiterNext     == Tick \/ \E c \in Calls : Check(c)

LimiterSpec == LimiterInit /\ [][LimiterNext]_limiterVars

-----------------------------------------------------------------------------
(* The types, and the limits of the deques: no deque ever holds more than  *)
(* its limit, and at most one call holds the lock of global.               *)
LimiterTypeOK ==
    /\ clock \in 0..MaxClock
    /\ state \in [Calls -> States] /\ pair \in [Calls -> Pairs] /\ at \in [Calls -> 0..clock]
    /\ perPair \in [Pairs -> Seq(Calls)] /\ global \in Seq(Calls)
    /\ late \subseteq {"pair", "global"} /\ misrolled \in BOOLEAN
    /\ \A p \in Pairs : Len(perPair[p]) <= MaxPair
    /\ Len(global) <= MaxGlobal
    /\ \A c, d \in Calls : state[c] = "rollback" /\ state[d] = "rollback" => c = d

(* d came at most a window before c and not after it.                      *)
Within(d, c) == at[d] <= at[c] /\ at[c] < at[d] + Window

Allowed   == {c \in Calls : state[c] = "allowed"}
Admitted  == {c \in Calls : state[c] \in {"global", "rollback", "allowed"}}
Of(p)     == {d \in Calls : pair[d] = p}
Queued(q) == {q[i] : i \in 1..Len(q)}

(* No window has more than MAX_GLOBAL_IN_WINDOW handshakes, unless a call  *)
(* that was late for its turn came after others had expired for a younger  *)
(* one.                                                                    *)
GlobalBound ==
    "global" \notin late =>
        \A c \in Allowed : Cardinality({d \in Allowed : Within(d, c)}) <= MaxGlobal

(* A handshake that is refused leaves nothing behind: the stamps of a pair *)
(* that count now are those of the calls that were allowed, or may still   *)
(* be.                                                                     *)
RefusalsLeaveNothing ==
    ~misrolled =>
        \A p \in Pairs :
            {c \in Queued(perPair[p]) : clock < at[c] + Window} =
                {c \in Admitted \cap Of(p) : clock < at[c] + Window}

(* Whoever is refused has a full window behind it: of calls of its own     *)
(* pair that have not been refused, or of handshakes in all.  These are    *)
(* counted one by one, not by their device ids as documented               *)
(* (rate_limit.rs:27, ADR-009:110), so fewer devices than                  *)
(* MAX_GLOBAL_IN_WINDOW fill the window; but no pair takes more of it than *)
(* its own limit, unless a call was late for the section of its pair or a  *)
(* roll-back went astray.                                                  *)
RefusedWhenFull ==
    [][\A c \in Calls :
        LET before == {d \in Allowed : Within(d, c)} IN
        /\ state[c] = "pair" /\ state'[c] = "pair_full" /\ "pair" \notin late' =>
               Cardinality({d \in Admitted \cap Of(pair[c]) : Within(d, c)}) >= MaxPair
        /\ state[c] = "global" /\ state'[c] = "rollback" /\ "global" \notin late' =>
               /\ Cardinality(before) >= MaxGlobal
               /\ "pair" \notin late /\ ~misrolled =>
                      \A p \in Pairs : Cardinality(before \cap Of(p)) <= MaxPair]_limiterVars

=============================================================================
