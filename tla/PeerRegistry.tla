---------------------------- MODULE PeerRegistry ----------------------------
(***************************************************************************)
(* The peer registry of one device (peer/mod.rs) together with the client  *)
(* pool it owns (app/client_pool.rs), under the calls that the HTTP        *)
(* handlers, the dialling tasks, the heartbeat worker, the front-end       *)
(* commands and the shutdown sequence make concurrently.                   *)
(*                                                                         *)
(* Four locks guard four containers.  A registry method is not atomic: it  *)
(* takes the locks one after the other, so the unit of atomicity is the    *)
(* lock section.  A worker is a tokio task that executes one call at a     *)
(* time; pc names the section it is about to execute and subject the       *)
(* device id the call is about.  approve and ban are the only methods that *)
(* hold two locks at once (approved, then banned).                         *)
(*                                                                         *)
(* Every PeerState the program stores carries trust_state Approved and no  *)
(* statement assigns another value, so inner is the set of known ids and   *)
(* the second half of approve (mod.rs:295), which rewrites Approved over   *)
(* Approved, has no effect and no section of its own.                      *)
(***************************************************************************)
CONSTANTS
    Peers,      \* the device ids the registry is asked about
    Workers     \* the tasks that call into the registry

VARIABLES
    inner,      \* ids with a PeerState
    approved,   \* short-circuit set of approved ids
    banned,     \* short-circuit set of banned ids
    pool,       \* ids with a reqwest::Client in the client pool
    pc,         \* the lock section each worker is about to execute
    subject,    \* the device id each worker's call is about
    cleared,    \* TRUE once a shutdown has begun to clear the registry
    crossed     \* history: ids that two calls were about at the same time

vars == <<inner, approved, banned, pool, pc, subject, cleared, crossed>>

InstallSections == {"install_screen", "install_pool", "install_inner", "install_approve"}
StubSections    == {"stub_known", "stub_banned", "stub_screen", "stub_dedupe"}
RemoveSections  == {"leave_known", "leave_seq", "remove_inner", "remove_approved",
                    "remove_banned", "remove_pool"}
TrustSections   == {"trust_sets", "ban_sets", "ban_inner", "ban_pool"}
RebuildSections == {"rebuild_known", "rebuild_banned", "rebuild_replace",
                    "recheck_known", "recheck_banned", "rebuild_cleanup"}
ClearSections   == {"clear_inner", "clear_approved", "clear_banned"}

Sections == {"idle"} \cup InstallSections \cup StubSections \cup RemoveSections
              \cup TrustSections \cup RebuildSections \cup ClearSections

Init ==
    /\ inner = {} /\ approved = {} /\ banned = {} /\ pool = {}
    /\ pc = [w \in Workers |-> "idle"]
    /\ subject \in [Workers -> Peers]
    /\ cleared = FALSE /\ crossed = {}

-----------------------------------------------------------------------------
At(w, sec)   == pc[w] = sec
Goto(w, sec) == pc' = [pc EXCEPT ![w] = sec] /\ UNCHANGED <<subject, crossed>>

(* The call of w is about p; a clear is about every id.                    *)
Touches(w, p) == pc[w] \in ClearSections \/ (~At(w, "idle") /\ subject[w] = p)

(* w turns to the ids S: those that another call is about are crossed.     *)
TurnTo(w, p, sec, S) ==
    /\ pc' = [pc EXCEPT ![w] = sec]
    /\ subject' = [subject EXCEPT ![w] = p]
    /\ crossed' = crossed \cup {q \in S : \E v \in Workers \ {w} : Touches(v, q)}
    /\ UNCHANGED <<inner, approved, banned, pool, cleared>>

Begin(w, p, sec) == At(w, "idle") /\ TurnTo(w, p, sec, {p})

(* A read section: it looks at one container and picks the next section.   *)
Branch(w, sec, test, yes, no) ==
    /\ At(w, sec)
    /\ Goto(w, IF test THEN yes ELSE no)
    /\ UNCHANGED <<inner, approved, banned, pool, cleared>>

-----------------------------------------------------------------------------
(* handle_handshake, and dial_handshake once the peer's answer has come:   *)
(* refuse a banned id, then pool.insert, registry.insert, registry.approve.*)
BeginInstall(w, p) == Begin(w, p, "install_screen")

(* Mutant: the handshake does not look at the ban list.                    *)
InstallUnscreened(w) == Branch(w, "install_screen", FALSE, "idle", "install_pool")

InstallScreen(w) ==
    Branch(w, "install_screen", subject[w] \in banned, "idle", "install_pool")

InstallPool(w) ==
    /\ At(w, "install_pool")
    /\ pool' = pool \cup {subject[w]}
    /\ Goto(w, "install_inner")
    /\ UNCHANGED <<inner, approved, banned, cleared>>

InstallInner(w) ==
    /\ At(w, "install_inner")
    /\ inner' = inner \cup {subject[w]}
    /\ Goto(w, "install_approve")
    /\ UNCHANGED <<approved, banned, pool, cleared>>

(* PeerRegistry::approve: both sets change under both locks.               *)
Approve(w, sec) ==
    /\ At(w, sec)
    /\ approved' = approved \cup {subject[w]}
    /\ banned' = banned \ {subject[w]}
    /\ Goto(w, "idle")
    /\ UNCHANGED <<inner, pool, cleared>>

InstallApprove(w) == Approve(w, "install_approve")

-----------------------------------------------------------------------------
(* gossip_dial_stub: known-or-banned test when the task starts, the same   *)
(* two tests again after the network round trip, then the installation.    *)
BeginStub(w, p) == Begin(w, p, "stub_known")

StubKnown(w)  == Branch(w, "stub_known", subject[w] \in inner, "idle", "stub_banned")
StubBanned(w) == Branch(w, "stub_banned", subject[w] \in banned, "idle", "stub_screen")
StubScreen(w) == Branch(w, "stub_screen", subject[w] \in banned, "idle", "stub_dedupe")
StubDedupe(w) == Branch(w, "stub_dedupe", subject[w] \in inner, "idle", "install_pool")

-----------------------------------------------------------------------------
(* handle_leave: known test, sequence-number test (a replayed sequence     *)
(* number ends the call), then the four sections of PeerRegistry::remove.  *)
BeginLeave(w, p) == Begin(w, p, "leave_known")

LeaveKnown(w) == Branch(w, "leave_known", subject[w] \in inner, "leave_seq", "idle")
LeaveSeq(w) ==
    \E fresh \in BOOLEAN :
        Branch(w, "leave_seq", fresh /\ subject[w] \in inner, "remove_inner", "idle")

RemoveInner(w) ==
    /\ At(w, "remove_inner")
    /\ inner' = inner \ {subject[w]}
    /\ Goto(w, "remove_approved")
    /\ UNCHANGED <<approved, banned, pool, cleared>>

RemoveApproved(w) ==
    /\ At(w, "remove_approved")
    /\ approved' = approved \ {subject[w]}
    /\ Goto(w, "remove_banned")
    /\ UNCHANGED <<inner, banned, pool, cleared>>

RemoveBanned(w) ==
    /\ At(w, "remove_banned")
    /\ banned' = banned \ {subject[w]}
    /\ Goto(w, "remove_pool")
    /\ UNCHANGED <<inner, approved, pool, cleared>>

RemovePool(w) ==
    /\ At(w, "remove_pool")
    /\ pool' = pool \ {subject[w]}
    /\ Goto(w, "idle")
    /\ UNCHANGED <<inner, approved, banned, cleared>>

-----------------------------------------------------------------------------
(* A decision to trust: the approve_peer command for a known id, or a      *)
(* /peers/trust message about any id, which some known origin must send.   *)
BeginTrust(w, p) == inner # {} /\ Begin(w, p, "trust_sets")
TrustSets(w)     == Approve(w, "trust_sets")

(* A decision to ban: the reject_peer command, or a /peers/ban message.    *)
BeginBan(w, p) == Begin(w, p, "ban_sets")

(* Mutant: ban forgets to take the id out of inner and the pool.           *)
BanSetsOnly(w) ==
    /\ At(w, "ban_sets")
    /\ approved' = approved \ {subject[w]}
    /\ banned' = banned \cup {subject[w]}
    /\ Goto(w, "idle")
    /\ UNCHANGED <<inner, pool, cleared>>

BanSets(w) ==
    /\ At(w, "ban_sets")
    /\ approved' = approved \ {subject[w]}
    /\ banned' = banned \cup {subject[w]}
    /\ Goto(w, "ban_inner")
    /\ UNCHANGED <<inner, pool, cleared>>

(* Mutant: ban leaves the client in the pool.                              *)
BanInnerKeepsClient(w) ==
    /\ At(w, "ban_inner")
    /\ inner' = inner \ {subject[w]}
    /\ Goto(w, "idle")
    /\ UNCHANGED <<approved, banned, pool, cleared>>

(* The pool is touched only when the id was a peer (removed.is_some()).    *)
BanInner(w) ==
    /\ At(w, "ban_inner")
    /\ inner' = inner \ {subject[w]}
    /\ Goto(w, IF subject[w] \in inner THEN "ban_pool" ELSE "idle")
    /\ UNCHANGED <<approved, banned, pool, cleared>>

BanPool(w) ==
    /\ At(w, "ban_pool")
    /\ pool' = pool \ {subject[w]}
    /\ Goto(w, "idle")
    /\ UNCHANGED <<inner, approved, banned, cleared>>

-----------------------------------------------------------------------------
(* force_rebuild_connection: test, replace the client, test again, then    *)
(* either take the client out again or dial.  Whoever answers at the       *)
(* address is installed, whatever id it has, and nobody may answer.        *)
BeginRebuild(w, p) == Begin(w, p, "rebuild_known")

RebuildKnown(w) ==
    Branch(w, "rebuild_known", subject[w] \in inner, "rebuild_banned", "idle")
RebuildBanned(w) ==
    Branch(w, "rebuild_banned", subject[w] \in banned, "idle", "rebuild_replace")

RebuildReplace(w) ==
    /\ At(w, "rebuild_replace")
    /\ pool' = pool \cup {subject[w]}
    /\ Goto(w, "recheck_known")
    /\ UNCHANGED <<inner, approved, banned, cleared>>

(* Mutant: the second test gives up without the cleanup.                   *)
RecheckNoCleanup(w) ==
    Branch(w, "recheck_known", subject[w] \in inner, "recheck_banned", "idle")

RecheckKnown(w) ==
    Branch(w, "recheck_known", subject[w] \in inner, "recheck_banned", "rebuild_cleanup")

RecheckBanned(w) ==
    /\ At(w, "recheck_banned")
    /\ \/ subject[w] \in banned /\ Goto(w, "rebuild_cleanup")
       \/ subject[w] \notin banned /\ Goto(w, "idle")
       \/ subject[w] \notin banned /\ \E p \in Peers : TurnTo(w, p, "install_screen", {p})
    /\ UNCHANGED <<inner, approved, banned, pool, cleared>>

RebuildCleanup(w) ==
    /\ At(w, "rebuild_cleanup")
    /\ pool' = pool \ {subject[w]}
    /\ Goto(w, "idle")
    /\ UNCHANGED <<inner, approved, banned, cleared>>

-----------------------------------------------------------------------------
(* PeerRegistry::clear, called by lifecycle.shutdown.                      *)
BeginClear(w) == At(w, "idle") /\ TurnTo(w, subject[w], "clear_inner", Peers)

ClearInner(w) ==
    /\ At(w, "clear_inner")
    /\ inner' = {}
    /\ cleared' = TRUE
    /\ Goto(w, "clear_approved")
    /\ UNCHANGED <<approved, banned, pool>>

ClearApproved(w) ==
    /\ At(w, "clear_approved")
    /\ approved' = {}
    /\ Goto(w, "clear_banned")
    /\ UNCHANGED <<inner, banned, pool, cleared>>

ClearBanned(w) ==
    /\ At(w, "clear_banned")
    /\ banned' = {}
    /\ Goto(w, "idle")
    /\ UNCHANGED <<inner, approved, pool, cleared>>

-----------------------------------------------------------------------------
BeginCall(w) ==
    \/ \E p \in Peers :
          \/ BeginInstall(w, p) \/ BeginStub(w, p) \/ BeginLeave(w, p)
          \/ BeginTrust(w, p)   \/ BeginBan(w, p)  \/ BeginRebuild(w, p)
    \/ BeginClear(w)

Install(w) == InstallScreen(w) \/ InstallPool(w) \/ InstallInner(w) \/ InstallApprove(w)
Stub(w)    == StubKnown(w) \/ StubBanned(w) \/ StubScreen(w) \/ StubDedupe(w)
Leave(w)   == LeaveKnown(w) \/ LeaveSeq(w)
Remove(w)  == RemoveInner(w) \/ RemoveApproved(w) \/ RemoveBanned(w) \/ RemovePool(w)
Ban(w)     == BanSets(w) \/ BanInner(w) \/ BanPool(w)
Rebuild(w) == \/ RebuildKnown(w) \/ RebuildBanned(w) \/ RebuildReplace(w)
              \/ RecheckKnown(w) \/ RecheckBanned(w) \/ RebuildCleanup(w)
Clear(w)   == ClearInner(w) \/ ClearApproved(w) \/ ClearBanned(w)

Section(w) ==
    \/ Install(w) \/ Stub(w) \/ Leave(w) \/ Remove(w)
    \/ TrustSets(w) \/ Ban(w) \/ Rebuild(w) \/ Clear(w)

Next == \E w \in Workers : BeginCall(w) \/ Section(w)

Spec == Init /\ [][Next]_vars

-----------------------------------------------------------------------------
(* Every container holds device ids and every worker is in a known section *)
(* (the types of the four containers of PeerRegistry and ClientPool).      *)
TypeOK ==
    /\ inner \subseteq Peers /\ approved \subseteq Peers
    /\ banned \subseteq Peers /\ pool \subseteq Peers
    /\ pc \in [Workers -> Sections]
    /\ subject \in [Workers -> Peers]
    /\ cleared \in BOOLEAN /\ crossed \subseteq Peers

(* Invariant (1) of mod.rs:18: no id is approved and banned, whatever the  *)
(* interleaving of approve, ban, remove and clear.                         *)
TrustBanDisjoint == approved \cap banned = {}

(* A known id is banned only while a ban has not yet taken it out of inner,*)
(* or while a handshake that was screened before the ban has not yet       *)
(* reached its approve.  At rest no banned id keeps a session key.         *)
UnbansSoon(w) == pc[w] = "install_approve"
KicksSoon(w)  == pc[w] = "ban_inner"
BannedKnownOnlyInTransit ==
    \A p \in banned \cap inner :
        \E w \in Workers : subject[w] = p /\ (UnbansSoon(w) \/ KicksSoon(w))

(* No client is leaked: until a shutdown clears the registry, a client in  *)
(* the pool belongs to a known id, or some call in progress is about to    *)
(* make the id known or to take the client out (mod.rs:20, one direction). *)
OwesClient(w) ==
    pc[w] \in {"install_inner", "remove_approved", "remove_banned", "remove_pool",
               "ban_pool", "recheck_known", "rebuild_cleanup"}
ClientHasOwner ==
    ~cleared => \A p \in pool \ inner : \E w \in Workers : subject[w] = p /\ OwesClient(w)

(* Invariants (2) and (3) of mod.rs:19-20 for an id no call is about: it   *)
(* is approved if it is known, and has a client if and only if it is.  A   *)
(* leave or a ban that overlaps a handshake of the same id breaks both, so *)
(* they are stated for ids that no two calls were about at the same time,  *)
(* whatever calls about other ids overlapped.                              *)
Consistent(p) == (p \in inner => p \in approved) /\ (p \in inner <=> p \in pool)
ConsistentIfAlone ==
    ~cleared => \A p \in Peers \ crossed :
        (\A w \in Workers : ~Touches(w, p)) => Consistent(p)

(* The table of the trust states (ADR-009, lines 233 to 242): which call   *)
(* takes an id from which state to which.                                  *)
Trust(p) ==
    IF p \in approved THEN "approved" ELSE IF p \in banned THEN "banned" ELSE "unknown"
TrustTable == {
    <<"install_approve", "unknown", "approved">>,
    <<"trust_sets", "unknown", "approved">>,    <<"trust_sets", "banned", "approved">>,
    <<"ban_sets", "unknown", "banned">>,        <<"ban_sets", "approved", "banned">>,
    <<"remove_approved", "approved", "unknown">>,
    <<"clear_approved", "approved", "unknown">>, <<"clear_banned", "banned", "unknown">>}

(* An id changes its trust state as the table says, so only a decision to  *)
(* trust or the end of the program lifts a ban, as long as no two calls    *)
(* were about the id at the same time.                                     *)
TableIfAlone ==
    [][\A p \in Peers \ crossed : Trust(p)' # Trust(p) =>
          \E w \in Workers : Touches(w, p) /\ <<pc[w], Trust(p), Trust(p)'>> \in TrustTable]_vars

=============================================================================
