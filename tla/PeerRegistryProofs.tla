------------------------- MODULE PeerRegistryProofs -------------------------
(***************************************************************************)
(* Proofs about PeerRegistry for any set of device ids and any set of      *)
(* workers.  Each argument is an induction over Next.  A step is made by   *)
(* one worker w: lemma OthersStay says that no other worker moves, and     *)
(* lemma QuietStep that beginning a call or reading changes no container,  *)
(* so the inductive steps below only look at the sections that write.      *)
(***************************************************************************)
EXTENDS PeerRegistry, TLAPS

(* The types of the registry's containers hold in every reachable state.   *)
THEOREM TypeCorrect == Spec => []TypeOK
<1>1. Init => TypeOK
  BY DEF Init, TypeOK, Sections
<1>2. TypeOK /\ [Next]_vars => TypeOK'
  <2> SUFFICES ASSUME TypeOK, [Next]_vars PROVE TypeOK'
    OBVIOUS
  <2>1. CASE UNCHANGED vars
    BY <2>1 DEF TypeOK, vars
  <2>2. ASSUME NEW w \in Workers, BeginCall(w) \/ Section(w) PROVE TypeOK'
    <3> USE DEF TypeOK, Sections, InstallSections, StubSections, RemoveSections,
                TrustSections, RebuildSections, ClearSections, At, Goto
    <3>1. CASE BeginCall(w)
      <4>1. PICK p \in Peers, sec \in Sections, S \in SUBSET Peers : TurnTo(w, p, sec, S)
        BY <3>1 DEF BeginCall, BeginInstall, BeginStub, BeginLeave, BeginTrust,
                    BeginBan, BeginRebuild, BeginClear, Begin
      <4>2. crossed' \subseteq Peers
        BY <4>1 DEF TurnTo
      <4>3. pc' \in [Workers -> Sections] /\ subject' \in [Workers -> Peers]
        BY <4>1 DEF TurnTo
      <4>4. UNCHANGED <<inner, approved, banned, pool, cleared>>
        BY <4>1 DEF TurnTo
      <4> QED
        BY <4>2, <4>3, <4>4
    <3>2. CASE Install(w)
      BY <3>2 DEF Install, InstallScreen, InstallPool, InstallInner, InstallApprove,
                  Approve, Branch
    <3>3. CASE Stub(w)
      BY <3>3 DEF Stub, StubKnown, StubBanned, StubScreen, StubDedupe, Branch
    <3>4. CASE Leave(w)
      BY <3>4 DEF Leave, LeaveKnown, LeaveSeq, Branch
    <3>5. CASE Remove(w)
      BY <3>5 DEF Remove, RemoveInner, RemoveApproved, RemoveBanned, RemovePool
    <3>6. CASE TrustSets(w)
      BY <3>6 DEF TrustSets, Approve
    <3>7. CASE Ban(w)
      BY <3>7 DEF Ban, BanSets, BanInner, BanPool
    <3>8. CASE Rebuild(w)
      BY <3>8 DEF Rebuild, RebuildKnown, RebuildBanned, RebuildReplace, RecheckKnown,
                  RecheckBanned, RebuildCleanup, Branch, TurnTo
    <3>9. CASE Clear(w)
      BY <3>9 DEF Clear, ClearInner, ClearApproved, ClearBanned
    <3> QED
      BY <2>2, <3>1, <3>2, <3>3, <3>4, <3>5, <3>6, <3>7, <3>8, <3>9 DEF Section
  <2> QED
    BY <2>1, <2>2 DEF Next
<1> QED
  BY <1>1, <1>2, PTL DEF Spec

-----------------------------------------------------------------------------
(* The sections of worker w that only read and the start of a call.        *)
Reads(w) ==
    \/ BeginCall(w) \/ InstallScreen(w) \/ Stub(w) \/ Leave(w)
    \/ RebuildKnown(w) \/ RebuildBanned(w) \/ RecheckKnown(w) \/ RecheckBanned(w)

(* A step of w leaves every other worker in its section, about its subject.*)
LEMMA OthersStay ==
    ASSUME TypeOK, NEW w \in Workers, BeginCall(w) \/ Section(w),
           NEW v \in Workers, v # w
    PROVE  pc'[v] = pc[v] /\ subject'[v] = subject[v]
<1> USE DEF TypeOK, Goto
<1>1. CASE BeginCall(w)
  BY <1>1 DEF BeginCall, Begin, TurnTo, BeginInstall, BeginStub, BeginLeave, BeginTrust,
              BeginBan, BeginRebuild, BeginClear
<1>2. CASE Install(w) \/ TrustSets(w)
  BY <1>2 DEF Install, InstallScreen, InstallPool, InstallInner, InstallApprove,
              Approve, Branch, TrustSets
<1>3. CASE Stub(w) \/ Leave(w)
  BY <1>3 DEF Stub, StubKnown, StubBanned, StubScreen, StubDedupe, Branch,
              Leave, LeaveKnown, LeaveSeq
<1>4. CASE Remove(w) \/ Ban(w)
  BY <1>4 DEF Remove, RemoveInner, RemoveApproved, RemoveBanned, RemovePool,
              Ban, BanSets, BanInner, BanPool
<1>5. CASE Rebuild(w)
  BY <1>5 DEF Rebuild, RebuildKnown, RebuildBanned, RebuildReplace, RecheckKnown,
              RecheckBanned, RebuildCleanup, Branch, TurnTo
<1>6. CASE Clear(w)
  BY <1>6 DEF Clear, ClearInner, ClearApproved, ClearBanned
<1> QED
  BY <1>1, <1>2, <1>3, <1>4, <1>5, <1>6 DEF Section

(* Reading and beginning a call change no container.                       *)
LEMMA QuietStep ==
    ASSUME NEW w \in Workers, Reads(w)
    PROVE  UNCHANGED <<inner, approved, banned, pool, cleared>>
BY DEF Reads, BeginCall, Begin, TurnTo, BeginInstall, BeginStub, BeginLeave, BeginTrust,
       BeginBan, BeginRebuild, BeginClear, InstallScreen, Stub, StubKnown,
       StubBanned, StubScreen, StubDedupe, Leave, LeaveKnown, LeaveSeq, RebuildKnown,
       RebuildBanned, RecheckKnown, RecheckBanned, Branch, TurnTo

-----------------------------------------------------------------------------
(* Invariant (1) of mod.rs:18: approved and banned never share an id.      *)
(* approve and ban move the id from one set to the other under both locks; *)
(* every other writer only takes ids out.                                  *)
THEOREM TrustBanExclusive == Spec => []TrustBanDisjoint
<1>1. Init => TrustBanDisjoint
  BY DEF Init, TrustBanDisjoint
<1>2. TrustBanDisjoint /\ [Next]_vars => TrustBanDisjoint'
  <2> SUFFICES ASSUME TrustBanDisjoint, [Next]_vars PROVE TrustBanDisjoint'
    OBVIOUS
  <2> USE DEF TrustBanDisjoint
  <2>1. CASE UNCHANGED vars
    BY <2>1 DEF vars
  <2>2. ASSUME NEW w \in Workers, BeginCall(w) \/ Section(w) PROVE TrustBanDisjoint'
    <3>1. CASE Reads(w)
      BY <3>1, QuietStep
    <3>2. CASE InstallApprove(w) \/ TrustSets(w)
      BY <3>2 DEF InstallApprove, TrustSets, Approve
    <3>3. CASE Ban(w)
      BY <3>3 DEF Ban, BanSets, BanInner, BanPool
    <3>4. CASE Remove(w) \/ Clear(w)
      BY <3>4 DEF Remove, RemoveInner, RemoveApproved, RemoveBanned, RemovePool,
                  Clear, ClearInner, ClearApproved, ClearBanned
    <3>5. CASE InstallPool(w) \/ InstallInner(w) \/ RebuildReplace(w) \/ RebuildCleanup(w)
      BY <3>5 DEF InstallPool, InstallInner, RebuildReplace, RebuildCleanup
    <3> QED
      BY <2>2, <3>1, <3>2, <3>3, <3>4, <3>5 DEF Reads, Section, Install, Rebuild
  <2> QED
    BY <2>1, <2>2 DEF Next
<1> QED
  BY <1>1, <1>2, PTL DEF Spec

-----------------------------------------------------------------------------
(* One step preserves BannedKnownOnlyInTransit: the witness of a banned    *)
(* known id is another worker, which stays where it is, or the worker that *)
(* steps, whose section then takes the id out of banned or out of inner.   *)
LEMMA TransitStep ==
    ASSUME TypeOK, BannedKnownOnlyInTransit,
           NEW w \in Workers, BeginCall(w) \/ Section(w)
    PROVE  BannedKnownOnlyInTransit'
<1> DEFINE Owes(v, p) == subject[v] = p /\ (UnbansSoon(v) \/ KicksSoon(v))
<1> SUFFICES ASSUME NEW p \in banned' \cap inner'
             PROVE  \E v \in Workers : Owes(v, p)'
  BY DEF BannedKnownOnlyInTransit
<1>1. ASSUME p \in banned \cap inner, ~Owes(w, p) PROVE \E v \in Workers : Owes(v, p)'
  <2>1. PICK v \in Workers : Owes(v, p)
    BY <1>1 DEF BannedKnownOnlyInTransit
  <2>2. v # w
    BY <1>1, <2>1
  <2> QED
    BY <2>1, <2>2, OthersStay DEF UnbansSoon, KicksSoon
<1>2. CASE Reads(w)
  <2>1. p \in banned \cap inner
    BY <1>2, QuietStep
  <2>2. ~UnbansSoon(w) /\ ~KicksSoon(w)
    BY <1>2 DEF Reads, BeginCall, Begin, TurnTo, BeginInstall, BeginStub, BeginLeave, BeginTrust,
                BeginBan, BeginRebuild, BeginClear, InstallScreen, Stub, StubKnown,
                StubBanned, StubScreen, StubDedupe, Leave, LeaveKnown, LeaveSeq,
                RebuildKnown, RebuildBanned, RecheckKnown, RecheckBanned, Branch, TurnTo, At,
                UnbansSoon, KicksSoon
  <2> QED
    BY <1>1, <2>1, <2>2
<1>3. CASE InstallInner(w)
  <2>1. pc'[w] = "install_approve" /\ subject'[w] = subject[w] /\ ~Owes(w, p)
    BY <1>3 DEF InstallInner, Goto, At, TypeOK, UnbansSoon, KicksSoon
  <2>2. p = subject[w] \/ p \in banned \cap inner
    BY <1>3 DEF InstallInner
  <2> QED
    BY <1>1, <2>1, <2>2 DEF UnbansSoon
<1>4. CASE InstallApprove(w) \/ TrustSets(w)
  <2>1. p # subject[w] /\ p \in banned \cap inner
    BY <1>4 DEF InstallApprove, TrustSets, Approve
  <2> QED
    BY <1>1, <2>1
<1>5. CASE BanSets(w)
  <2>1. pc'[w] = "ban_inner" /\ subject'[w] = subject[w] /\ ~Owes(w, p)
    BY <1>5 DEF BanSets, Goto, At, TypeOK, UnbansSoon, KicksSoon
  <2>2. p = subject[w] \/ p \in banned \cap inner
    BY <1>5 DEF BanSets
  <2> QED
    BY <1>1, <2>1, <2>2 DEF KicksSoon
<1>6. CASE BanInner(w)
  <2>1. p # subject[w] /\ p \in banned \cap inner
    BY <1>6 DEF BanInner
  <2> QED
    BY <1>1, <2>1
<1>7. CASE \/ Remove(w) \/ Clear(w) \/ BanPool(w) \/ InstallPool(w)
           \/ RebuildReplace(w) \/ RebuildCleanup(w)
  <2> USE DEF Remove, RemoveInner, RemoveApproved, RemoveBanned, RemovePool, Clear,
              ClearInner, ClearApproved, ClearBanned, BanPool, InstallPool,
              RebuildReplace, RebuildCleanup
  <2>1. p \in banned \cap inner
    BY <1>7
  <2>2. ~Owes(w, p)
    BY <1>7 DEF At, UnbansSoon, KicksSoon
  <2> QED
    BY <1>1, <2>1, <2>2
<1> QED
  BY <1>2, <1>3, <1>4, <1>5, <1>6, <1>7 DEF Reads, Section, Install, Rebuild, Ban

(* A banned id is known only in transit.                                   *)
THEOREM BannedKnownTransient == Spec => []BannedKnownOnlyInTransit
<1>1. Init => BannedKnownOnlyInTransit
  BY DEF Init, BannedKnownOnlyInTransit
<1>2. TypeOK /\ BannedKnownOnlyInTransit /\ [Next]_vars => BannedKnownOnlyInTransit'
  <2> SUFFICES ASSUME TypeOK, BannedKnownOnlyInTransit, [Next]_vars
               PROVE  BannedKnownOnlyInTransit'
    OBVIOUS
  <2>1. CASE UNCHANGED vars
    BY <2>1 DEF vars, BannedKnownOnlyInTransit, UnbansSoon, KicksSoon
  <2>2. CASE Next
    BY <2>2, TransitStep DEF Next
  <2> QED
    BY <2>1, <2>2
<1> QED
  BY <1>1, <1>2, TypeCorrect, PTL DEF Spec

-----------------------------------------------------------------------------
(* One step preserves ClientHasOwner: a call that adds a client to the     *)
(* pool, or takes an id with a client out of inner, owes it from then on,  *)
(* and it stops owing only by making the id known or removing the client.  *)
LEMMA OwnerStep ==
    ASSUME TypeOK, ClientHasOwner, NEW w \in Workers, BeginCall(w) \/ Section(w)
    PROVE  ClientHasOwner'
<1> DEFINE Owes(v, p) == subject[v] = p /\ OwesClient(v)
<1> SUFFICES ASSUME ~cleared', NEW p \in pool' \ inner'
             PROVE  \E v \in Workers : Owes(v, p)'
  BY DEF ClientHasOwner
<1>1. ASSUME ~cleared, p \in pool \ inner, ~Owes(w, p) PROVE \E v \in Workers : Owes(v, p)'
  <2>1. PICK v \in Workers : Owes(v, p)
    BY <1>1 DEF ClientHasOwner
  <2>2. v # w
    BY <1>1, <2>1
  <2> QED
    BY <2>1, <2>2, OthersStay DEF OwesClient
<1>2. CASE Reads(w)
  <2>1. ~cleared /\ p \in pool \ inner
    BY <1>2, QuietStep
  <2>2. CASE RecheckKnown(w)
    <3>1. subject[w] = p => Owes(w, p)'
      BY <2>1, <2>2 DEF RecheckKnown, Branch, Goto, TypeOK, OwesClient
    <3> QED
      BY <1>1, <2>1, <3>1
  <2>3. CASE ~RecheckKnown(w)
    <3>1. ~OwesClient(w)
      BY <1>2, <2>3 DEF Reads, BeginCall, Begin, TurnTo, BeginInstall, BeginStub, BeginLeave,
                        BeginTrust, BeginBan, BeginRebuild, BeginClear, InstallScreen,
                        Stub, StubKnown, StubBanned, StubScreen, StubDedupe, Leave,
                        LeaveKnown, LeaveSeq, RebuildKnown, RebuildBanned,
                        RecheckBanned, Branch, At, OwesClient
    <3> QED
      BY <1>1, <2>1, <3>1
  <2> QED
    BY <2>2, <2>3
<1>3. CASE InstallPool(w) \/ RebuildReplace(w)
  <2>1. /\ pc'[w] \in {"install_inner", "recheck_known"}
        /\ subject'[w] = subject[w] /\ ~OwesClient(w)
    BY <1>3 DEF InstallPool, RebuildReplace, Goto, At, TypeOK, OwesClient
  <2>2. p = subject[w] \/ (~cleared /\ p \in pool \ inner)
    BY <1>3 DEF InstallPool, RebuildReplace
  <2> QED
    BY <1>1, <2>1, <2>2 DEF OwesClient
<1>4. CASE InstallInner(w)
  <2>1. p # subject[w] /\ ~cleared /\ p \in pool \ inner
    BY <1>4 DEF InstallInner
  <2> QED
    BY <1>1, <2>1
<1>5. CASE RemovePool(w) \/ BanPool(w) \/ RebuildCleanup(w)
  <2>1. p # subject[w] /\ ~cleared /\ p \in pool \ inner
    BY <1>5 DEF RemovePool, BanPool, RebuildCleanup
  <2> QED
    BY <1>1, <2>1
<1>6. CASE RemoveInner(w)
  <2>1. pc'[w] = "remove_approved" /\ subject'[w] = subject[w] /\ ~OwesClient(w)
    BY <1>6 DEF RemoveInner, Goto, At, TypeOK, OwesClient
  <2>2. p = subject[w] \/ (~cleared /\ p \in pool \ inner)
    BY <1>6 DEF RemoveInner
  <2> QED
    BY <1>1, <2>1, <2>2 DEF OwesClient
<1>7. CASE BanInner(w)
  <2>1. ~OwesClient(w)
    BY <1>7 DEF BanInner, At, OwesClient
  <2>2. CASE p \in inner
    <3>1. pc'[w] = "ban_pool" /\ subject'[w] = p
      BY <1>7, <2>2 DEF BanInner, Goto, TypeOK
    <3> QED
      BY <3>1 DEF OwesClient
  <2>3. CASE p \notin inner
    BY <1>1, <1>7, <2>1, <2>3 DEF BanInner
  <2> QED
    BY <2>2, <2>3
<1>8. CASE RemoveApproved(w) \/ RemoveBanned(w)
  <2>1. ~cleared /\ p \in pool \ inner
    BY <1>8 DEF RemoveApproved, RemoveBanned
  <2>2. pc'[w] \in {"remove_banned", "remove_pool"} /\ subject'[w] = subject[w]
    BY <1>8 DEF RemoveApproved, RemoveBanned, Goto, TypeOK
  <2>3. subject[w] = p => Owes(w, p)'
    BY <2>2 DEF OwesClient
  <2> QED
    BY <1>1, <2>1, <2>3
<1>9. CASE InstallApprove(w) \/ TrustSets(w) \/ BanSets(w) \/ ClearApproved(w) \/ ClearBanned(w)
  <2> USE DEF InstallApprove, TrustSets, Approve, BanSets, ClearApproved, ClearBanned
  <2>1. ~cleared /\ p \in pool \ inner
    BY <1>9
  <2>2. ~OwesClient(w)
    BY <1>9 DEF At, OwesClient
  <2> QED
    BY <1>1, <2>1, <2>2
<1>10. CASE ClearInner(w)
  BY <1>10 DEF ClearInner
<1> QED
  BY <1>2, <1>3, <1>4, <1>5, <1>6, <1>7, <1>8, <1>9, <1>10
     DEF Reads, Section, Install, Rebuild, Ban, Remove, Clear

(* Until a shutdown clears the registry no client is leaked.               *)
THEOREM NoClientLeaked == Spec => []ClientHasOwner
<1>1. Init => ClientHasOwner
  BY DEF Init, ClientHasOwner
<1>2. TypeOK /\ ClientHasOwner /\ [Next]_vars => ClientHasOwner'
  <2> SUFFICES ASSUME TypeOK, ClientHasOwner, [Next]_vars PROVE ClientHasOwner'
    OBVIOUS
  <2>1. CASE UNCHANGED vars
    BY <2>1 DEF vars, ClientHasOwner, OwesClient
  <2>2. CASE Next
    BY <2>2, OwnerStep DEF Next
  <2> QED
    BY <2>1, <2>2
<1> QED
  BY <1>1, <1>2, TypeCorrect, PTL DEF Spec

-----------------------------------------------------------------------------
(* Sections that follow a look at the ban list, or at inner, which has no  *)
(* banned id when a call is alone.                                         *)
Screened(w) ==
    pc[w] \in {"stub_dedupe", "install_pool", "install_inner", "install_approve",
               "remove_inner", "remove_approved", "remove_banned",
               "rebuild_replace", "recheck_known", "recheck_banned"}
        => subject[w] \notin banned

(* What a call that is alone has found or has done so far.                 *)
Fits(w) ==
    /\ pc[w] \in {"install_inner", "install_approve"} => subject[w] \in pool
    /\ pc[w] \in {"install_approve", "rebuild_banned", "rebuild_replace",
                  "recheck_known", "recheck_banned"} => subject[w] \in inner
    /\ pc[w] \in {"remove_approved", "remove_banned", "remove_pool", "ban_pool"}
         => subject[w] \notin inner
    /\ pc[w] = "ban_inner" => (subject[w] \in inner <=> subject[w] \in pool)
    /\ pc[w] # "rebuild_cleanup"

(* The call is half-way through changing its id.                           *)
Changing(w) == pc[w] \in {"install_inner", "install_approve", "remove_approved",
                          "remove_banned", "remove_pool", "ban_inner", "ban_pool"}

(* What holds of an id that no two calls were about at the same time: the  *)
(* calls about it come one at a time, each fits, and between them it is    *)
(* consistent.                                                             *)
AloneAt(p) ==
    /\ \A v, w \in Workers : Touches(v, p) /\ Touches(w, p) => v = w
    /\ \A w \in Workers : subject[w] = p => Screened(w)
    /\ ~cleared => /\ \A w \in Workers : subject[w] = p => Fits(w)
                   /\ (\A w \in Workers : subject[w] = p => ~Changing(w)) => Consistent(p)

AloneInv ==
    /\ \A w \in Workers : pc[w] \in {"clear_approved", "clear_banned"} => cleared
    /\ \A p \in Peers \ crossed : AloneAt(p)

(* A call that is not about p says nothing of p.                           *)
LEMMA UntouchedFits ==
    ASSUME NEW v \in Workers, NEW p \in Peers, ~Touches(v, p), subject[v] = p
    PROVE  Screened(v) /\ Fits(v) /\ ~Changing(v)
BY DEF Touches, At, Screened, Fits, Changing

(* A step changes nothing about an id it is not about.                     *)
LEMMA WritesOwn ==
    ASSUME TypeOK, NEW w \in Workers, BeginCall(w) \/ Section(w),
           NEW p \in Peers, ~Touches(w, p) \/ BeginCall(w)
    PROVE  /\ cleared' = cleared
           /\ p \in inner' <=> p \in inner
           /\ p \in approved' <=> p \in approved
           /\ p \in banned' <=> p \in banned
           /\ p \in pool' <=> p \in pool
<1>1. CASE Reads(w)
  BY <1>1, QuietStep
<1>2. CASE ~Reads(w)
  <2>1. ~Touches(w, p) /\ ~BeginCall(w)
    BY <1>2 DEF Reads
  <2>2. CASE InstallPool(w) \/ InstallInner(w) \/ InstallApprove(w) \/ TrustSets(w)
    BY <2>1, <2>2 DEF InstallPool, InstallInner, InstallApprove, TrustSets, Approve, At, Touches
  <2>3. CASE Remove(w) \/ Ban(w)
    BY <2>1, <2>3 DEF Remove, RemoveInner, RemoveApproved, RemoveBanned, RemovePool,
                      Ban, BanSets, BanInner, BanPool, At, Touches
  <2>4. CASE RebuildReplace(w) \/ RebuildCleanup(w)
    BY <2>1, <2>4 DEF RebuildReplace, RebuildCleanup, At, Touches
  <2>5. CASE Clear(w)
    BY <2>1, <2>5 DEF Clear, ClearInner, ClearApproved, ClearBanned, At, Touches, ClearSections
  <2> QED
    BY <1>2, <2>1, <2>2, <2>3, <2>4, <2>5 DEF Reads, Section, Install, Rebuild
<1> QED
  BY <1>1, <1>2

(* A step turns to other ids, or goes on with those of its call.           *)
LEMMA TurnsOrGoesOn ==
    ASSUME TypeOK, NEW w \in Workers, BeginCall(w) \/ Section(w)
    PROVE  \/ /\ crossed' = crossed
              /\ \A p \in Peers : Touches(w, p)' => Touches(w, p)
           \/ \E S \in SUBSET Peers :
                 /\ crossed' = crossed \cup {q \in S : \E v \in Workers \ {w} : Touches(v, q)}
                 /\ \A p \in Peers : Touches(w, p)' => p \in S
<1>1. ASSUME NEW q \in Peers, NEW sec \in Sections \ ClearSections, TurnTo(w, q, sec, {q})
      PROVE  \E S \in SUBSET Peers :
                 /\ crossed' = crossed \cup {r \in S : \E v \in Workers \ {w} : Touches(v, r)}
                 /\ \A p \in Peers : Touches(w, p)' => p \in S
  <2>1. \A p \in Peers : Touches(w, p)' => p \in {q}
    BY <1>1 DEF TypeOK, TurnTo, Touches, At
  <2>2. crossed' = crossed \cup {r \in {q} : \E v \in Workers \ {w} : Touches(v, r)}
    BY <1>1, Zenon DEF TurnTo
  <2>3. {q} \in SUBSET Peers
    OBVIOUS
  <2> QED
    BY <2>1, <2>2, <2>3, Zenon
<1>2. CASE BeginCall(w)
  <2>1. CASE BeginClear(w)
    BY <2>1 DEF BeginClear, TurnTo
  <2>2. CASE ~BeginClear(w)
    <3>1. PICK q \in Peers, sec \in Sections \ ClearSections : TurnTo(w, q, sec, {q})
      BY <1>2, <2>2 DEF BeginCall, BeginInstall, BeginStub, BeginLeave, BeginTrust,
                        BeginBan, BeginRebuild, Begin, Sections, InstallSections, StubSections,
                        RemoveSections, TrustSections, RebuildSections, ClearSections
    <3> QED
      BY <1>1, <3>1
  <2> QED
    BY <2>1, <2>2
<1> USE DEF TypeOK, Goto, At, Touches
<1>3. CASE Install(w) \/ TrustSets(w)
  BY <1>3 DEF Install, InstallScreen, InstallPool, InstallInner, InstallApprove,
              Approve, Branch, TrustSets, ClearSections
<1>4. CASE Stub(w) \/ Leave(w)
  BY <1>4 DEF Stub, StubKnown, StubBanned, StubScreen, StubDedupe, Branch,
              Leave, LeaveKnown, LeaveSeq, ClearSections
<1>5. CASE Remove(w) \/ Ban(w)
  BY <1>5 DEF Remove, RemoveInner, RemoveApproved, RemoveBanned, RemovePool,
              Ban, BanSets, BanInner, BanPool, ClearSections
<1>6. CASE RecheckBanned(w)
  <2>1. CASE \E q \in Peers : TurnTo(w, q, "install_screen", {q})
    <3>1. "install_screen" \in Sections \ ClearSections
      BY DEF Sections, InstallSections, ClearSections
    <3> QED
      BY <1>1, <2>1, <3>1
  <2>2. CASE ~\E q \in Peers : TurnTo(w, q, "install_screen", {q})
    BY <1>6, <2>2 DEF RecheckBanned, ClearSections
  <2> QED
    BY <2>1, <2>2
<1>7. CASE Rebuild(w) /\ ~RecheckBanned(w)
  BY <1>7 DEF Rebuild, RebuildKnown, RebuildBanned, RebuildReplace, RecheckKnown,
              RebuildCleanup, Branch, ClearSections
<1>8. CASE Clear(w)
  BY <1>8 DEF Clear, ClearInner, ClearApproved, ClearBanned, ClearSections
<1> QED
  BY <1>2, <1>3, <1>4, <1>5, <1>6, <1>7, <1>8 DEF Section

(* So while an id is not crossed, a step about it is the only one.         *)
LEMMA OthersElsewhere ==
    ASSUME TypeOK, AloneInv, NEW w \in Workers, BeginCall(w) \/ Section(w),
           NEW p \in Peers \ crossed'
    PROVE  /\ p \notin crossed
           /\ \A v \in Workers \ {w} : Touches(v, p)' <=> Touches(v, p)
           /\ Touches(w, p) \/ Touches(w, p)' => \A v \in Workers \ {w} : ~Touches(v, p)
<1>1. p \notin crossed
  BY TurnsOrGoesOn
<1>2. \A v \in Workers \ {w} : Touches(v, p)' <=> Touches(v, p)
  BY OthersStay DEF Touches, At
<1>3. ASSUME Touches(w, p) PROVE \A v \in Workers \ {w} : ~Touches(v, p)
  BY <1>1, <1>3 DEF AloneInv, AloneAt
<1>4. ASSUME Touches(w, p)', ~Touches(w, p) PROVE \A v \in Workers \ {w} : ~Touches(v, p)
  BY <1>4, TurnsOrGoesOn
<1> QED
  BY <1>1, <1>2, <1>3, <1>4

(* What AloneAt says of p when w is the only worker that may touch it.     *)
FitsOne(w, p) ==
    /\ subject[w] = p => Screened(w)
    /\ ~cleared => /\ subject[w] = p => Fits(w)
                   /\ (subject[w] = p => ~Changing(w)) => Consistent(p)

LEMMA AloneIsOne ==
    ASSUME NEW w \in Workers, NEW p \in Peers, \A v \in Workers \ {w} : ~Touches(v, p)
    PROVE  AloneAt(p) <=> FitsOne(w, p)
BY UntouchedFits DEF AloneAt, FitsOne

LEMMA AloneIsOneNext ==
    ASSUME NEW w \in Workers, NEW p \in Peers, \A v \in Workers \ {w} : ~Touches(v, p)'
    PROVE  AloneAt(p)' <=> FitsOne(w, p)'
<1>1. \A v \in Workers \ {w} : subject'[v] = p => Screened(v)' /\ Fits(v)' /\ ~Changing(v)'
  BY DEF Touches, At, Screened, Fits, Changing
<1> QED
  BY <1>1 DEF AloneAt, FitsOne

(* One step about an id that no other call is about: what it reads tells   *)
(* which section may come next.                                            *)
LEMMA OneStep ==
    ASSUME TypeOK, TypeOK', BannedKnownOnlyInTransit, AloneInv,
           NEW w \in Workers, BeginCall(w) \/ Section(w),
           NEW p \in Peers \ crossed, \A v \in Workers \ {w} : ~Touches(v, p)
    PROVE  FitsOne(w, p)'
<1>1. FitsOne(w, p)
  BY AloneIsOne DEF AloneInv
<1> USE DEF TypeOK, FitsOne, Screened, Fits, Changing, Consistent, At, Goto
<1>2. CASE BeginCall(w)
  <2>1. PICK q \in Peers, sec \in Sections :
          /\ pc'[w] = sec /\ subject'[w] = q
          /\ UNCHANGED <<inner, approved, banned, pool, cleared>>
          /\ pc[w] = "idle"
          /\ sec \in {"install_screen", "stub_known", "leave_known", "trust_sets",
                      "ban_sets", "rebuild_known", "clear_inner"}
    BY <1>2 DEF BeginCall, Begin, TurnTo, BeginInstall, BeginStub, BeginLeave, BeginTrust,
                BeginBan, BeginRebuild, BeginClear, Sections, InstallSections, StubSections,
                RemoveSections, TrustSections, RebuildSections, ClearSections
  <2> QED
    BY <1>1, <2>1
<1>3. CASE Install(w) \/ TrustSets(w)
  BY <1>1, <1>3 DEF Install, InstallScreen, InstallPool, InstallInner, InstallApprove,
                    TrustSets, Approve, Branch
<1>4. CASE Stub(w)
  BY <1>1, <1>4 DEF Stub, StubKnown, StubBanned, StubScreen, StubDedupe, Branch
<1>5. CASE Leave(w)
  <2>1. p \in inner /\ pc[w] \in {"leave_known", "leave_seq"} => p \notin banned
    BY DEF BannedKnownOnlyInTransit, UnbansSoon, KicksSoon, Touches
  <2> QED
    BY <1>1, <1>5, <2>1 DEF Leave, LeaveKnown, LeaveSeq, Branch
<1>6. CASE Remove(w)
  BY <1>1, <1>6 DEF Remove, RemoveInner, RemoveApproved, RemoveBanned, RemovePool
<1>7. CASE Ban(w)
  BY <1>1, <1>7 DEF Ban, BanSets, BanInner, BanPool
<1>8. CASE Rebuild(w)
  BY <1>1, <1>8 DEF Rebuild, RebuildKnown, RebuildBanned, RebuildReplace, RecheckKnown,
                    RecheckBanned, RebuildCleanup, Branch, TurnTo
<1>9. CASE Clear(w)
  <2>1. pc[w] \in {"clear_approved", "clear_banned"} => cleared
    BY DEF AloneInv
  <2> QED
    BY <1>1, <1>9, <2>1 DEF Clear, ClearInner, ClearApproved, ClearBanned
<1> QED
  BY <1>2, <1>3, <1>4, <1>5, <1>6, <1>7, <1>8, <1>9 DEF Section

LEMMA AloneStep ==
    ASSUME TypeOK, TypeOK', BannedKnownOnlyInTransit, AloneInv,
           NEW w \in Workers, BeginCall(w) \/ Section(w)
    PROVE  AloneInv'
<1>1. ASSUME NEW v \in Workers, pc'[v] \in {"clear_approved", "clear_banned"} PROVE cleared'
  <2>1. cleared => cleared'
    BY DEF TypeOK, Section, BeginCall, Begin, TurnTo, BeginInstall, BeginStub, BeginLeave,
           BeginTrust, BeginBan, BeginRebuild, BeginClear, Install, InstallScreen,
           InstallPool, InstallInner, InstallApprove, Approve, Branch, TrustSets,
           Stub, StubKnown, StubBanned, StubScreen, StubDedupe, Leave, LeaveKnown, LeaveSeq,
           Remove, RemoveInner, RemoveApproved, RemoveBanned, RemovePool,
           Ban, BanSets, BanInner, BanPool, Rebuild, RebuildKnown, RebuildBanned,
           RebuildReplace, RecheckKnown, RecheckBanned, RebuildCleanup,
           Clear, ClearInner, ClearApproved, ClearBanned
  <2>2. CASE v # w
    BY <1>1, <2>1, <2>2, OthersStay DEF AloneInv
  <2>3. CASE v = w
    <3> USE DEF TypeOK, At, Goto
    <3>1. CASE Clear(w)
      BY <2>1, <3>1 DEF Clear, ClearInner, ClearApproved, ClearBanned, AloneInv
    <3>2. CASE BeginCall(w)
      BY <1>1, <2>3, <3>2 DEF BeginCall, Begin, TurnTo, BeginInstall, BeginStub, BeginLeave,
                              BeginTrust, BeginBan, BeginRebuild, BeginClear
    <3>3. CASE Install(w) \/ TrustSets(w) \/ Stub(w) \/ Leave(w)
      BY <1>1, <2>3, <3>3 DEF Install, InstallScreen, InstallPool, InstallInner,
                              InstallApprove, Approve, Branch, TrustSets, Stub, StubKnown,
                              StubBanned, StubScreen, StubDedupe, Leave, LeaveKnown, LeaveSeq
    <3>4. CASE Remove(w) \/ Ban(w) \/ Rebuild(w)
      BY <1>1, <2>3, <3>4 DEF Remove, RemoveInner, RemoveApproved, RemoveBanned, RemovePool,
                              Ban, BanSets, BanInner, BanPool, Rebuild, RebuildKnown,
                              RebuildBanned, RebuildReplace, RecheckKnown, RecheckBanned,
                              RebuildCleanup, Branch, TurnTo
    <3> QED
      BY <3>1, <3>2, <3>3, <3>4 DEF Section
  <2> QED
    BY <2>2, <2>3
<1>2. ASSUME NEW p \in Peers \ crossed' PROVE AloneAt(p)'
  <2>1. p \notin crossed
    BY OthersElsewhere
  <2>2. CASE Touches(w, p) \/ Touches(w, p)'
    <3>1. \A v \in Workers \ {w} : ~Touches(v, p) /\ ~Touches(v, p)'
      BY <2>2, OthersElsewhere
    <3>2. FitsOne(w, p)'
      BY <2>1, <3>1, OneStep
    <3> QED
      BY <3>1, <3>2, AloneIsOneNext
  <2>3. CASE ~Touches(w, p) /\ ~Touches(w, p)'
    <3>1. \A v \in Workers : Touches(v, p)' <=> Touches(v, p)
      BY <2>3, OthersElsewhere
    <3>2. /\ cleared' = cleared
          /\ p \in inner' <=> p \in inner
          /\ p \in approved' <=> p \in approved
          /\ p \in banned' <=> p \in banned
          /\ p \in pool' <=> p \in pool
      BY <2>3, WritesOwn
    <3>3. \A v \in Workers \ {w} : pc'[v] = pc[v] /\ subject'[v] = subject[v]
      BY OthersStay
    <3>4. /\ subject[w] = p => Screened(w) /\ Fits(w) /\ ~Changing(w)
          /\ subject'[w] = p => Screened(w)' /\ Fits(w)' /\ ~Changing(w)'
      BY <2>3 DEF Touches, At, Screened, Fits, Changing
    <3>5. AloneAt(p)
      BY <2>1 DEF AloneInv
    <3>6. \A v \in Workers \ {w} : subject[v] = p =>
             /\ Screened(v)' <=> Screened(v)
             /\ Fits(v)' <=> Fits(v)
             /\ Changing(v)' <=> Changing(v)
      BY <3>2, <3>3 DEF Screened, Fits, Changing
    <3>7. Consistent(p)' <=> Consistent(p)
      BY <3>2 DEF Consistent
    <3> HIDE DEF Touches, Screened, Fits, Changing, Consistent
    <3> QED
      BY <3>1, <3>2, <3>3, <3>4, <3>5, <3>6, <3>7 DEF AloneAt
  <2> QED
    BY <2>2, <2>3
<1> QED
  BY <1>1, <1>2 DEF AloneInv

LEMMA AloneAlways == Spec => []AloneInv
<1>1. Init => AloneInv
  BY DEF Init, AloneInv, AloneAt, Touches, At, ClearSections, Screened, Fits, Consistent
<1>2. TypeOK /\ TypeOK' /\ BannedKnownOnlyInTransit /\ AloneInv /\ [Next]_vars => AloneInv'
  <2> SUFFICES ASSUME TypeOK, TypeOK', BannedKnownOnlyInTransit, AloneInv, [Next]_vars
               PROVE  AloneInv'
    OBVIOUS
  <2>1. CASE UNCHANGED vars
    BY <2>1 DEF vars, AloneInv, AloneAt, Touches, At, Screened, Fits, Changing, Consistent
  <2>2. CASE Next
    BY <2>2, AloneStep DEF Next
  <2> QED
    BY <2>1, <2>2
<1> QED
  BY <1>1, <1>2, TypeCorrect, BannedKnownTransient, PTL DEF Spec

(* Invariants (2) and (3) of mod.rs:19-20 for any number of devices and    *)
(* tasks: an id that no two calls were about at the same time is, while no *)
(* call is about it, approved if it is known, and has a client if and only *)
(* if it is, whatever calls about other ids overlap.                       *)
THEOREM ConsistentAlone == Spec => []ConsistentIfAlone
<1>1. TypeOK /\ AloneInv => ConsistentIfAlone
  <2> SUFFICES ASSUME TypeOK, AloneInv, ~cleared, NEW p \in Peers \ crossed,
                      \A w \in Workers : ~Touches(w, p)
               PROVE  Consistent(p)
    BY DEF ConsistentIfAlone
  <2>1. \A w \in Workers : subject[w] = p => ~Changing(w)
    BY UntouchedFits
  <2> QED
    BY <2>1 DEF AloneInv, AloneAt
<1> QED
  BY <1>1, TypeCorrect, AloneAlways, PTL

(* The table of ADR-009 (lines 233 to 242) for any number of devices and   *)
(* tasks: an install was screened, and a peer that leaves was known and so *)
(* not banned; only a decision to trust, or the end of the program, lifts  *)
(* the ban of an id that no two calls were about at the same time.         *)
THEOREM TableKept == Spec => TableIfAlone
<1>1. ASSUME TypeOK, TrustBanDisjoint, AloneInv, [Next]_vars, NEW p \in Peers \ crossed,
             Trust(p)' # Trust(p)
      PROVE  \E w \in Workers :
                Touches(w, p) /\ <<pc[w], Trust(p), Trust(p)'>> \in TrustTable
  <2>1. PICK w \in Workers : BeginCall(w) \/ Section(w)
    BY <1>1 DEF Next, vars, Trust
  <2>2. Touches(w, p) /\ Section(w)
    BY <1>1, <2>1, WritesOwn DEF Trust
  <2>3. subject[w] = p => Screened(w)
    BY <1>1 DEF AloneInv, AloneAt
  <2>4. ~(p \in approved /\ p \in banned)
    BY <1>1 DEF TrustBanDisjoint
  <2>5. <<pc[w], Trust(p), Trust(p)'>> \in TrustTable
    <3> USE DEF Touches, At
    <3>1. CASE Reads(w)
      BY <1>1, <3>1, QuietStep DEF Trust
    <3>2. CASE InstallApprove(w) \/ TrustSets(w)
      BY <1>1, <2>2, <2>3, <2>4, <3>2
         DEF InstallApprove, TrustSets, Approve, Screened, Trust, TrustTable, ClearSections
    <3>3. CASE Remove(w)
      BY <1>1, <2>2, <2>3, <2>4, <3>3
         DEF Remove, RemoveInner, RemoveApproved, RemoveBanned, RemovePool,
             Screened, Trust, TrustTable, ClearSections
    <3>4. CASE Ban(w)
      BY <1>1, <2>2, <2>4, <3>4
         DEF Ban, BanSets, BanInner, BanPool, Trust, TrustTable, ClearSections
    <3>5. CASE Clear(w)
      BY <1>1, <2>4, <3>5 DEF Clear, ClearInner, ClearApproved, ClearBanned, Trust, TrustTable
    <3>6. CASE InstallPool(w) \/ InstallInner(w) \/ RebuildReplace(w) \/ RebuildCleanup(w)
      BY <1>1, <3>6 DEF InstallPool, InstallInner, RebuildReplace, RebuildCleanup, Trust
    <3> QED
      BY <2>2, <3>1, <3>2, <3>3, <3>4, <3>5, <3>6 DEF Reads, Section, Install, Rebuild
  <2> QED
    BY <2>2, <2>5
<1>2. TypeOK /\ TrustBanDisjoint /\ AloneInv /\ [Next]_vars =>
        [\A p \in Peers \ crossed : Trust(p)' # Trust(p) =>
            \E w \in Workers :
                Touches(w, p) /\ <<pc[w], Trust(p), Trust(p)'>> \in TrustTable]_vars
  BY <1>1
<1> QED
  BY <1>2, TypeCorrect, TrustBanExclusive, AloneAlways, PTL DEF Spec, TableIfAlone
=============================================================================
