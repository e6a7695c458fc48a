-------------------------- MODULE TokenRefreshProofs --------------------------
(***************************************************************************)
(* The refresh of tokens for any requests, grants and lifetimes.           *)
(*                                                                         *)
(* Usable is what keeps the row usable: as long as nothing of a grant is   *)
(* lost, the request that is about to persist holds its one good refresh   *)
(* token.  Entries ties the cache entries to their expiry, and Past to     *)
(* the grants there have been.                                             *)
(***************************************************************************)
EXTENDS TokenRefresh, TLAPS

\* A cache without an entry holds nothing, an idle request neither; a request
\* only refreshes and persists what it has.
Entries ==
    /\ \A c \in {"connect", "inject"} : ttl[c] = 0 => copy[c] = None
    /\ \A r \in Requests :
         /\ at[r] \in {"idle", "missed"} => copy[r] = None
         /\ at[r] \in {"refresh", "persist", "set"} => copy[r] # None

\* The entry of an injection does not outlive its token.
Alive == ttl["inject"] > 0 => setup.kind = "key" \/ ttl["inject"] <= copy["inject"].left

Past ==
    /\ \A h \in Holders : copy[h].grant <= latest
    /\ OldGrantExplained

Usable ==
    setup.kind = "oauth" =>
        /\ setup.mode = "static" => \A h \in Holders : copy[h] # None => copy[h].rt = "good"
        /\ \A r \in Requests : at[r] = "persist" /\ copy[r].grant \notin lost =>
             /\ copy[r].rt = "good"
             /\ setup.mode # "static" =>
                  \A h \in Holders \ {r} : copy[h].grant = copy[r].grant => copy[h].rt = "spent"
        /\ RowUsable

IInv == TypeOK /\ Entries /\ Alive /\ Past /\ Usable

-----------------------------------------------------------------------------

\* A step keeps the types.
LEMMA TypeStep ==
    ASSUME IInv, [Next]_vars
    PROVE  TypeOK'
<1> USE TokenAssumption, HoldersDistinct DEF IInv, TypeOK, Holders, Cred, None,
   Setup, Entries
<1>1. ASSUME NEW r \in Requests, Request(r)
      PROVE  TypeOK'
  <2>1. CASE Hit(r)
    BY <2>1 DEF Hit, Pass, Go
  <2>2. CASE Miss(r)
    BY <2>2 DEF Miss, Go
  <2>3. CASE ReadDb(r)
    BY <2>3 DEF ReadDb, Pass, Go
  <2>4. CASE SetConnect(r)
    BY <2>4 DEF SetConnect, Pass, Go
  <2>5. CASE NoConnections(r)
    BY <2>5 DEF NoConnections, Finish, Forget, Go
  <2>6. CASE InjectionHit(r)
    BY <2>6 DEF InjectionHit, Finish, Forget, Go
  <2>7. CASE InjectionMiss(r)
    BY <2>7 DEF InjectionMiss, Go, NeedsRefresh
  <2>8. CASE Refreshes(r)
    BY <2>8 DEF Refreshes, Redeemed, Redeemable, Go
  <2>9. CASE RefreshLost(r)
    BY <2>9 DEF RefreshLost, Redeemed, Redeemable, Go
  <2>10. CASE RefreshFails(r)
    BY <2>10 DEF RefreshFails, Go
  <2>11. CASE RefreshReused(r)
    BY <2>11 DEF RefreshReused, Redeemed, Go
  <2>12. CASE Persist(r)
    BY <2>12 DEF Persist, Pass, Go
  <2>13. CASE PersistFails(r)
    <3>1. copy[r].grant \in 1 .. Grants
      BY <1>1, <2>13 DEF PersistFails
    <3>2. lost' \subseteq 1 .. Grants
      BY <2>13, <3>1 DEF PersistFails
    <3>3. QED
      BY <2>13, <3>2 DEF PersistFails, Go
  <2>14. CASE SetInjection(r)
    BY <2>14 DEF SetInjection, InjectionTtl, Go
  <2>15. CASE Dropped(r)
    <3>1. at[r] = "persist" => copy[r].grant \in 1 .. Grants
      BY <1>1
    <3>2. lost' \subseteq 1 .. Grants
      BY <2>15, <3>1 DEF Dropped
    <3>3. QED
      BY <2>15, <3>2 DEF Dropped, Finish, Forget, Go
  <2>16. QED
    BY <1>1, <2>1, <2>2, <2>3, <2>4, <2>5, <2>6, <2>7, <2>8, <2>9, <2>10, <2>11,
       <2>12, <2>13, <2>14, <2>15 DEF Request
<1>2. CASE Restart
  <2>1. \A r \in Requests : at[r] = "persist" => copy[r].grant \in 1 .. Grants
    OBVIOUS
  <2>2. {copy[r].grant : r \in {q \in Requests : at[q] = "persist"}} \subseteq 1 .. Grants
    BY <2>1
  <2>3. lost' \subseteq 1 .. Grants
    BY <1>2, <2>2 DEF Restart
  <2>4. QED
    BY <1>2, <2>3 DEF Restart
<1>3. CASE Tick
  BY <1>3 DEF Tick
<1>4. CASE Reconnect
  BY <1>4 DEF Reconnect, Fresh, Outdated
<1>5. CASE Disconnect
  BY <1>5 DEF Disconnect, Outdated
<1>6. CASE FlushLost
  BY <1>6 DEF FlushLost
<1>7. CASE InvalidateInjections
  BY <1>7 DEF InvalidateInjections, Forget
<1>8. CASE InvalidateConnect
  BY <1>8 DEF InvalidateConnect, Forget
<1>9. CASE UNCHANGED vars
  BY <1>9 DEF vars
<1>10. QED
  BY <1>1, <1>2, <1>3, <1>4, <1>5, <1>6, <1>7, <1>8, <1>9 DEF Next

\* A step keeps entries and expiries together.
LEMMA EntriesStep ==
    ASSUME IInv, [Next]_vars
    PROVE  Entries' /\ Alive'
<1> USE TokenAssumption, HoldersDistinct DEF IInv, TypeOK, Holders, Cred, None,
   Setup, Entries, Alive
<1>1. ASSUME NEW r \in Requests, Request(r)
      PROVE  Entries' /\ Alive'
  <2>1. CASE Hit(r)
    BY <2>1 DEF Hit, Pass, Go
  <2>2. CASE Miss(r)
    BY <2>2 DEF Miss, Go
  <2>3. CASE ReadDb(r)
    BY <2>3 DEF ReadDb, Pass, Go
  <2>4. CASE SetConnect(r)
    BY <2>4 DEF SetConnect, Pass, Go
  <2>5. CASE NoConnections(r)
    BY <2>5 DEF NoConnections, Finish, Forget, Go
  <2>6. CASE InjectionHit(r)
    BY <2>6 DEF InjectionHit, Finish, Forget, Go
  <2>7. CASE InjectionMiss(r)
    BY <2>7 DEF InjectionMiss, Go, NeedsRefresh
  <2>8. CASE Refreshes(r)
    BY <2>8 DEF Refreshes, Redeemed, Redeemable, Go
  <2>9. CASE RefreshLost(r)
    BY <2>9 DEF RefreshLost, Redeemed, Redeemable, Go
  <2>10. CASE RefreshFails(r)
    BY <2>10 DEF RefreshFails, Go
  <2>11. CASE RefreshReused(r)
    BY <2>11 DEF RefreshReused, Redeemed, Go
  <2>12. CASE Persist(r)
    BY <2>12 DEF Persist, Pass, Go
  <2>13. CASE PersistFails(r)
    BY <2>13 DEF PersistFails, Go
  <2>14. CASE SetInjection(r)
    BY <2>14 DEF SetInjection, InjectionTtl, Go
  <2>15. CASE Dropped(r)
    BY <2>15 DEF Dropped, Finish, Forget, Go
  <2>16. QED
    BY <1>1, <2>1, <2>2, <2>3, <2>4, <2>5, <2>6, <2>7, <2>8, <2>9, <2>10, <2>11,
       <2>12, <2>13, <2>14, <2>15 DEF Request
<1>2. CASE Restart
  BY <1>2 DEF Restart
<1>3. CASE Tick
  BY <1>3 DEF Tick
<1>4. CASE Reconnect
  BY <1>4 DEF Reconnect, Fresh, Outdated
<1>5. CASE Disconnect
  BY <1>5 DEF Disconnect, Outdated
<1>6. CASE FlushLost
  BY <1>6 DEF FlushLost
<1>7. CASE InvalidateInjections
  BY <1>7 DEF InvalidateInjections, Forget
<1>8. CASE InvalidateConnect
  BY <1>8 DEF InvalidateConnect, Forget
<1>9. CASE UNCHANGED vars
  BY <1>9 DEF vars
<1>10. QED
  BY <1>1, <1>2, <1>3, <1>4, <1>5, <1>6, <1>7, <1>8, <1>9 DEF Next

\* A step brings old credentials nowhere without a mark.
LEMMA PastStep ==
    ASSUME IInv, [Next]_vars
    PROVE  Past'
<1> USE TokenAssumption, HoldersDistinct DEF IInv, TypeOK, Holders, Cred, None,
   Entries, Past, OldGrantExplained
<1>1. ASSUME NEW r \in Requests, Request(r)
      PROVE  Past'
  <2>1. CASE Hit(r)
    BY <2>1 DEF Hit, Pass, Go
  <2>2. CASE Miss(r)
    BY <2>2 DEF Miss, Go
  <2>3. CASE ReadDb(r)
    BY <2>3 DEF ReadDb, Pass, Go
  <2>4. CASE SetConnect(r)
    BY <2>4 DEF SetConnect, Pass, Go
  <2>5. CASE NoConnections(r)
    BY <2>5 DEF NoConnections, Finish, Forget, Go
  <2>6. CASE InjectionHit(r)
    BY <2>6 DEF InjectionHit, Finish, Forget, Go
  <2>7. CASE InjectionMiss(r)
    BY <2>7 DEF InjectionMiss, Go, NeedsRefresh
  <2>8. CASE Refreshes(r)
    BY <2>8 DEF Refreshes, Redeemed, Redeemable, Go
  <2>9. CASE RefreshLost(r)
    BY <2>9 DEF RefreshLost, Redeemed, Redeemable, Go
  <2>10. CASE RefreshFails(r)
    BY <2>10 DEF RefreshFails, Go
  <2>11. CASE RefreshReused(r)
    BY <2>11 DEF RefreshReused, Redeemed, Go
  <2>12. CASE Persist(r)
    BY <2>12 DEF Persist, Pass, Go
  <2>13. CASE PersistFails(r)
    BY <2>13 DEF PersistFails, Go
  <2>14. CASE SetInjection(r)
    BY <2>14 DEF SetInjection, InjectionTtl, Go
  <2>15. CASE Dropped(r)
    BY <2>15 DEF Dropped, Finish, Forget, Go
  <2>16. QED
    BY <1>1, <2>1, <2>2, <2>3, <2>4, <2>5, <2>6, <2>7, <2>8, <2>9, <2>10, <2>11,
       <2>12, <2>13, <2>14, <2>15 DEF Request
<1>2. CASE Restart
  BY <1>2 DEF Restart
<1>3. CASE Tick
  BY <1>3 DEF Tick
<1>4. CASE Reconnect
  BY <1>4 DEF Reconnect, Fresh, Outdated
<1>5. CASE Disconnect
  BY <1>5 DEF Disconnect, Outdated
<1>6. CASE FlushLost
  BY <1>6 DEF FlushLost
<1>7. CASE InvalidateInjections
  BY <1>7 DEF InvalidateInjections, Forget
<1>8. CASE InvalidateConnect
  BY <1>8 DEF InvalidateConnect, Forget
<1>9. CASE UNCHANGED vars
  BY <1>9 DEF vars
<1>10. QED
  BY <1>1, <1>2, <1>3, <1>4, <1>5, <1>6, <1>7, <1>8, <1>9 DEF Next

\* A step leaves the row usable.
LEMMA UsableStep ==
    ASSUME IInv, [Next]_vars
    PROVE  Usable'
<1> USE TokenAssumption, HoldersDistinct DEF IInv, TypeOK, Holders, Cred, None,
   Setup, Entries, Past, Usable, RowUsable
<1>1. ASSUME NEW r \in Requests, Request(r)
      PROVE  Usable'
  <2>1. CASE Hit(r)
    BY <2>1 DEF Hit, Pass, Go
  <2>2. CASE Miss(r)
    BY <2>2 DEF Miss, Go
  <2>3. CASE ReadDb(r)
    BY <2>3 DEF ReadDb, Pass, Go
  <2>4. CASE SetConnect(r)
    BY <2>4 DEF SetConnect, Pass, Go
  <2>5. CASE NoConnections(r)
    BY <2>5 DEF NoConnections, Finish, Forget, Go
  <2>6. CASE InjectionHit(r)
    BY <2>6 DEF InjectionHit, Finish, Forget, Go
  <2>7. CASE InjectionMiss(r)
    BY <2>7 DEF InjectionMiss, Go, NeedsRefresh
  <2>8. CASE Refreshes(r)
    <3>1. SUFFICES ASSUME setup.kind = "oauth"
                   PROVE  Usable'
      BY <2>8 DEF Refreshes
    <3>2. /\ at'[r] = "persist" /\ \A q \in Requests \ {r} : at'[q] = at[q]
          /\ copy[r].rt = "good" /\ copy[r] # None
          /\ UNCHANGED <<setup, lost>>
      BY <2>8, <3>1 DEF Refreshes, Redeemable, Go
    <3>3. copy'[r].rt = "good" /\ copy'[r].grant = copy[r].grant
      BY <2>8, <3>2 DEF Refreshes, Redeemed
    <3>4. ASSUME NEW h \in Holders \ {r}
          PROVE  /\ copy'[h].grant = copy[h].grant
                 /\ copy'[h].rt = IF copy[h].grant = copy[r].grant /\ setup.mode # "static"
                                  THEN "spent" ELSE copy[h].rt
                 /\ copy[h] = None <=> copy'[h] = None
      BY <2>8, <3>1 DEF Refreshes, Redeemed
    <3>5. setup.mode = "static" => \A h \in Holders : copy'[h] # None => copy'[h].rt = "good"
      BY <3>1, <3>2, <3>3, <3>4
    <3>6. ASSUME NEW q \in Requests, at'[q] = "persist", copy'[q].grant \notin lost'
          PROVE  /\ copy'[q].rt = "good"
                 /\ setup.mode # "static" =>
                      \A h \in Holders \ {q} : copy'[h].grant = copy'[q].grant => copy'[h].rt = "spent"
      <4>1. CASE q = r
        BY <3>2, <3>3, <3>4, <4>1
      <4>2. CASE q # r
        <5>1. /\ copy[q].rt = "good" /\ copy[q] # None
              /\ setup.mode # "static" =>
                   \A h \in Holders \ {q} : copy[h].grant = copy[q].grant => copy[h].rt = "spent"
          BY <3>1, <3>2, <3>4, <3>6, <4>2
        <5>2. setup.mode # "static" => copy[q].grant # copy[r].grant
          BY <3>2, <4>2, <5>1
        <5>3. QED
          BY <3>2, <3>3, <3>4, <4>2, <5>1, <5>2
      <4>3. QED
        BY <4>1, <4>2
    <3>7. RowUsable'
      BY <3>1, <3>2, <3>3, <3>4
    <3>8. QED
      BY <3>2, <3>5, <3>6, <3>7
  <2>9. CASE RefreshLost(r)
    BY <2>9 DEF RefreshLost, Redeemed, Redeemable, Go
  <2>10. CASE RefreshFails(r)
    BY <2>10 DEF RefreshFails, Go
  <2>11. CASE RefreshReused(r)
    BY <2>11 DEF RefreshReused, Redeemed, Go
  <2>12. CASE Persist(r)
    BY <2>12 DEF Persist, Pass, Go
  <2>13. CASE PersistFails(r)
    BY <2>13 DEF PersistFails, Go
  <2>14. CASE SetInjection(r)
    BY <2>14 DEF SetInjection, InjectionTtl, Go
  <2>15. CASE Dropped(r)
    BY <2>15 DEF Dropped, Finish, Forget, Go
  <2>16. QED
    BY <1>1, <2>1, <2>2, <2>3, <2>4, <2>5, <2>6, <2>7, <2>8, <2>9, <2>10, <2>11,
       <2>12, <2>13, <2>14, <2>15 DEF Request
<1>2. CASE Restart
  BY <1>2 DEF Restart
<1>3. CASE Tick
  BY <1>3 DEF Tick
<1>4. CASE Reconnect
  BY <1>4 DEF Reconnect, Fresh, Outdated
<1>5. CASE Disconnect
  BY <1>5 DEF Disconnect, Outdated
<1>6. CASE FlushLost
  BY <1>6 DEF FlushLost
<1>7. CASE InvalidateInjections
  BY <1>7 DEF InvalidateInjections, Forget
<1>8. CASE InvalidateConnect
  BY <1>8 DEF InvalidateConnect, Forget
<1>9. CASE UNCHANGED vars
  BY <1>9 DEF vars
<1>10. QED
  BY <1>1, <1>2, <1>3, <1>4, <1>5, <1>6, <1>7, <1>8, <1>9 DEF Next

-----------------------------------------------------------------------------
(* The theorems                                                             *)

\* The strengthened invariant holds of every behaviour.
LEMMA Invariance == Spec => []IInv
<1> USE TokenAssumption, HoldersDistinct
<1>1. Init => IInv
  <2> SUFFICES ASSUME Init PROVE IInv
    OBVIOUS
  <2>1. /\ setup \in Setup
        /\ \A h \in Holders : copy[h] = IF h = "row" THEN Fresh(1) ELSE None
    BY DEF Init
  <2>2. TypeOK
    BY DEF Init, TypeOK, Cred, None, Fresh, Holders
  <2>3. Entries /\ Alive
    <3>1. /\ \A r \in Requests : copy[r] = None /\ at[r] = "idle"
          /\ \A c \in {"connect", "inject"} : copy[c] = None /\ ttl[c] = 0
      BY <2>1 DEF Init, Holders
    <3>2. QED
      BY <3>1 DEF Entries, Alive
  <2>4. Past
    <3>1. /\ copy["row"].grant = 1 /\ latest = 1
          /\ \A h \in Holders \ {"row"} : copy[h] = None /\ copy[h].grant = 0
      BY <2>1 DEF Init, Holders, Fresh, None
    <3>2. QED
      BY <3>1 DEF Past, OldGrantExplained
  <2>5. Usable
    BY <2>1 DEF Init, Usable, RowUsable, Holders, None, Fresh
  <2>6. QED
    BY <2>2, <2>3, <2>4, <2>5 DEF IInv
<1>2. IInv /\ [Next]_vars => IInv'
  BY TypeStep, EntriesStep, PastStep, UsableStep DEF IInv
<1>3. QED
  BY <1>1, <1>2, PTL DEF Spec

\* Type correctness of the row, the caches and the requests' copies.
THEOREM TypeCorrect == Spec => []TypeOK
<1>1. IInv => TypeOK
  BY DEF IInv
<1>2. QED
  BY <1>1, Invariance, PTL

\* resolve_access_token, persist_refreshed_credentials: no overlap of refreshes,
\* restarts, reconnects and flushes leaves a row the provider will not redeem,
\* unless a token of its grant was lost.
THEOREM RowStaysUsable == Spec => []RowUsable
<1>1. IInv => RowUsable
  BY DEF IInv, Usable, RowUsable
<1>2. QED
  BY <1>1, Invariance, PTL

\* resolve_connection_injections: an injection in the cache is a live token.
THEOREM CachedTokenIsAlive == Spec => []CachedTokenAlive
<1>1. IInv => CachedTokenAlive
  <2> SUFFICES ASSUME IInv PROVE CachedTokenAlive
    OBVIOUS
  <2>1. ttl["inject"] \in Nat
    BY TokenAssumption DEF IInv, TypeOK
  <2>2. copy["inject"] \in Cred \cup {None} /\ None.left = -1
    BY DEF IInv, TypeOK, Holders, None
  <2>3. copy["inject"].left \in Int
    BY <2>2, TokenAssumption DEF Cred
  <2>4. QED
    BY <2>1, <2>3 DEF IInv, Alive, CachedTokenAlive
<1>2. QED
  BY <1>1, Invariance, PTL

\* Old credentials are only where a request under way, or an entry that no
\* invalidation reached, has put them.
THEOREM OldGrantIsExplained == Spec => []OldGrantExplained
<1>1. IInv => OldGrantExplained
  BY DEF IInv, Past
<1>2. QED
  BY <1>1, Invariance, PTL

\* No refresh brings back a connection the user removed.
THEOREM DisconnectIsFinal == Spec => StaysDisconnected
<1>1. ASSUME IInv, [Next]_vars, copy["row"] = None
      PROVE  copy'["row"] = None
  <2> USE <1>1, TokenAssumption, HoldersDistinct DEF IInv, TypeOK, Holders, None
  <2>1. ASSUME NEW r \in Requests, Request(r)
        PROVE  copy'["row"] = None
    <3>1. CASE Hit(r) \/ Miss(r) \/ ReadDb(r) \/ SetConnect(r) \/ NoConnections(r)
      BY <3>1 DEF Hit, Miss, ReadDb, SetConnect, NoConnections, Pass, Finish, Forget
    <3>2. CASE InjectionHit(r) \/ InjectionMiss(r) \/ RefreshFails(r)
      BY <3>2 DEF InjectionHit, InjectionMiss, RefreshFails, Finish, Forget
    <3>3. CASE Refreshes(r)
      BY <3>3 DEF Refreshes, Redeemed, Redeemable
    <3>4. CASE RefreshLost(r) \/ RefreshReused(r)
      BY <3>4 DEF RefreshLost, RefreshReused, Redeemed
    <3>5. CASE Persist(r) \/ PersistFails(r)
      BY <3>5 DEF Persist, PersistFails
    <3>6. CASE SetInjection(r) \/ Dropped(r)
      BY <3>6 DEF SetInjection, Dropped, Finish, Forget
    <3>7. QED
      BY <2>1, <3>1, <3>2, <3>3, <3>4, <3>5, <3>6 DEF Request
  <2>2. CASE Restart \/ Tick
    BY <2>2 DEF Restart, Tick
  <2>3. CASE Reconnect \/ Disconnect \/ FlushLost
    BY <2>3 DEF Reconnect, Disconnect, FlushLost
  <2>4. CASE InvalidateInjections \/ InvalidateConnect \/ UNCHANGED vars
    BY <2>4 DEF InvalidateInjections, InvalidateConnect, Forget, vars
  <2>5. QED
    BY <2>1, <2>2, <2>3, <2>4 DEF Next
<1>2. QED
  BY <1>1, Invariance, PTL DEF Spec, StaysDisconnected
=============================================================================
