---------------------------- MODULE RequestsProofs ----------------------------
(* What stands around a trade: the instruments a symbol resolves to and their *)
(* backup, the views of a trade and its archive, the step a trailing stop is  *)
(* counted from, and the figures that are computed; for any number of         *)
(* refreshes, trades, readers, prices and configurations.                     *)
EXTENDS Instruments, Figures, FiniteSetTheorems, SequenceTheorems, WellFoundedInduction, TLAPS

-----------------------------------------------------------------------------
(* Numbers: the greatest of a set that is bounded                            *)

LEMMA GreatestOf ==
    ASSUME NEW S \in SUBSET Nat, S # {}, NEW b \in Nat, \A x \in S : x <= b
    PROVE  Max(S) \in S /\ \A x \in S : x <= Max(S)
<1>. DEFINE T == {b - x : x \in S}
<1>1. T \subseteq Nat /\ T # {}
  OBVIOUS
<1>2. PICK t \in T : \A u \in T : <<u, t>> \notin OpToRel(<, Nat)
  BY <1>1, NatLessThanWellFounded, WFMin
<1>3. PICK x \in S : t = b - x
  OBVIOUS
<1>4. ASSUME NEW y \in S PROVE y <= x
  <2>1. PICK u \in T : u = b - y
    OBVIOUS
  <2>2. u \in Nat /\ t \in Nat
    BY <1>1
  <2>3. ~(u < t)
    BY <1>2, <2>2 DEF OpToRel
  <2>4. QED
    BY <1>3, <2>1, <2>3
<1>5. \E y \in S : \A z \in S : y >= z
  BY <1>4
<1>6. QED
  BY <1>5 DEF Max

LEMMA MaxOfTwo ==
    ASSUME NEW a \in Nat, NEW b \in Nat
    PROVE  Max({a, b}) \in Nat /\ Max({a, b}) >= a /\ Max({a, b}) >= b
<1>1. {a, b} \in SUBSET Nat /\ a + b \in Nat /\ \A x \in {a, b} : x <= a + b
  OBVIOUS
<1>2. QED
  BY <1>1, GreatestOf

-----------------------------------------------------------------------------
(* The backup.  A version is past when it cannot be given again; what a      *)
(* start has read is the newest of the backup until a refresh is served; and *)
(* what was served last is saved, being saved, or was cut short.             *)

IsPast(v, last, t) == v <= last \/ v < t

Quietly(k) == k.pc \in {"idle", "fetching"}
IsSaving(k, v) == k.pc = "saving" /\ k.version = v

IsRefresh(k, sv) ==
    \/ k.pc \in {"idle", "fetching", "saved"}
    \/ /\ k.pc = "saving"
       /\ k = [pc |-> k.pc, version |-> k.version, left |-> k.left]
       /\ k.version \in Nat /\ k.version <= sv
    \/ /\ k.pc = "pruning"
       /\ k = [pc |-> k.pc, doomed |-> k.doomed]
       /\ \A v \in k.doomed : v \in Nat /\ v < sv

Stored(v, st) == {d.piece : d \in {e \in st : e.version = v}}

IsWhole(sv, content, st, ref) ==
    /\ Stored(sv, st) = content
    /\ \A r \in Refreshes : ~IsSaving(ref[r], sv)
IsBeingSaved(sv, content, st, ref) ==
    \E r \in Refreshes : IsSaving(ref[r], sv) /\ Stored(sv, st) \cup ref[r].left = content

Restored ==
    /\ served.version = 0 => served.content = {}
    /\ served.version > 0 => served.content = FindLatestSnapshot
    /\ \A r \in Refreshes : Quietly(refresh[r])

Refreshed ==
    /\ served.version > 0 /\ served.content # {}
    /\ \A d \in store : d.version <= served.version
    /\ \A r \in Refreshes : IsRefresh(refresh[r], served.version)
    /\ \A r, q \in Refreshes :
         refresh[r].pc = "saving" /\ refresh[q].pc = "saving"
           /\ refresh[r].version = refresh[q].version => r = q
    /\ \/ served.version \in lost
       \/ IsWhole(served.version, served.content, store, refresh)
       \/ IsBeingSaved(served.version, served.content, store, refresh)

MasterInv ==
    /\ now \in Nat
    /\ served = [version |-> served.version, content |-> served.content]
    /\ served.version \in Nat
    /\ \A d \in store : d.version \in Nat /\ IsPast(d.version, served.version, now)
    /\ refresh = [r \in Refreshes |-> refresh[r]]
    /\ Restored \/ Refreshed

LEMMA InitMasterInv == MasterInit => MasterInv
BY DEF MasterInit, InitMaster, MasterInv, Restored, Quietly, Resting, Empty

LEMMA SameMaster ==
    ASSUME MasterInv, now' \in Nat, now <= now', UNCHANGED <<served, store, lost, refresh>>
    PROVE  MasterInv'
<1>1. \A d \in store : IsPast(d.version, served'.version, now')
  BY DEF MasterInv, IsPast
<1>2. Restored' <=> Restored
  BY DEF Restored, FindLatestSnapshot, Versions, OfVersion
<1>3. Refreshed' <=> Refreshed
  BY DEF Refreshed
<1>4. QED
  BY <1>1, <1>2, <1>3 DEF MasterInv

(* One refresh at a time, the catalogue being the same: a step that leaves   *)
(* the saves alone                                                           *)
LEMMA RefreshMoves ==
    ASSUME NEW r \in Refreshes, NEW k, MasterInv, refresh' = [refresh EXCEPT ![r] = k],
           UNCHANGED <<now, served, store>>, lost \subseteq lost',
           IsRefresh(k, served.version), k.pc # "saving",
           refresh[r].pc # "saving" \/ refresh[r].version \in lost',
           Quietly(k) \/ ~Quietly(refresh[r])
    PROVE  MasterInv'
<1>1. /\ refresh' = [q \in Refreshes |-> refresh'[q]]
      /\ \A q \in Refreshes : refresh'[q] = IF q = r THEN k ELSE refresh[q]
  BY DEF MasterInv
<1>2. \A d \in store : d.version \in Nat /\ IsPast(d.version, served'.version, now')
  BY DEF MasterInv, IsPast
<1>3. CASE Restored
  <2>1. \A q \in Refreshes : Quietly(refresh'[q])
    BY <1>1, <1>3 DEF Restored
  <2>2. Restored'
    BY <1>3, <2>1 DEF Restored, FindLatestSnapshot, Versions, OfVersion
  <2>3. QED
    BY <1>1, <1>2, <2>2 DEF MasterInv
<1>4. CASE Refreshed
  <2>1. \A q \in Refreshes : IsRefresh(refresh'[q], served.version)
    BY <1>1, <1>4 DEF Refreshed
  <2>2. \A p, q \in Refreshes :
          refresh'[p].pc = "saving" /\ refresh'[q].pc = "saving"
            /\ refresh'[p].version = refresh'[q].version => p = q
    BY <1>1, <1>4 DEF Refreshed
  <2>3. ASSUME served.version \notin lost'
        PROVE  \/ IsWhole(served.version, served.content, store, refresh')
               \/ IsBeingSaved(served.version, served.content, store, refresh')
    <3>1. ~IsSaving(refresh[r], served.version) /\ ~IsSaving(k, served.version)
      BY <2>3 DEF IsSaving
    <3>2. served.version \notin lost
      BY <2>3
    <3>3. CASE IsWhole(served.version, served.content, store, refresh)
      BY <1>1, <3>1, <3>3 DEF IsWhole
    <3>4. CASE IsBeingSaved(served.version, served.content, store, refresh)
      BY <1>1, <3>1, <3>4 DEF IsBeingSaved
    <3>5. QED
      BY <1>4, <3>2, <3>3, <3>4 DEF Refreshed
  <2>4. Refreshed'
    BY <1>4, <2>1, <2>2, <2>3 DEF Refreshed
  <2>5. QED
    BY <1>1, <1>2, <2>4 DEF MasterInv
<1>5. QED
  BY <1>3, <1>4 DEF MasterInv
LEMMA RefreshStartsKeeps ==
    ASSUME NEW r \in Refreshes, MasterInv, RefreshStarts(r) \/ RefreshFails(r)
    PROVE  MasterInv'
<1>1. PICK k : k = IF RefreshStarts(r) THEN Fetching ELSE Resting
  OBVIOUS
<1>2. refresh' = [refresh EXCEPT ![r] = k] /\ UNCHANGED <<now, served, store, lost>>
      /\ refresh[r].pc # "saving"
  BY <1>1 DEF RefreshStarts, RefreshFails, Resting
<1>3. Quietly(k) /\ k.pc # "saving" /\ IsRefresh(k, served.version)
  BY <1>1 DEF Fetching, Resting, Quietly, IsRefresh
<1>4. QED
  BY <1>2, <1>3, RefreshMoves

LEMMA SaveFailsKeeps ==
    ASSUME NEW r \in Refreshes, MasterInv, SaveFails(r)
    PROVE  MasterInv'
<1>1. PICK k : k = Resting
  OBVIOUS
<1>2. /\ refresh' = [refresh EXCEPT ![r] = k] /\ UNCHANGED <<now, served, store>>
      /\ lost \subseteq lost' /\ (refresh[r].pc # "saving" \/ refresh[r].version \in lost')
  BY <1>1 DEF SaveFails
<1>3. Quietly(k) /\ k.pc # "saving" /\ IsRefresh(k, served.version)
  BY <1>1 DEF Resting, Quietly, IsRefresh
<1>4. QED
  BY <1>2, <1>3, RefreshMoves

(* What pruning removes has newer versions beside it.                        *)
LEMMA PruneListedKeeps ==
    ASSUME NEW r \in Refreshes, MasterInv, PruneListed(r)
    PROVE  MasterInv'
<1>1. PICK k : k = IF ToDelete(Versions) = {} THEN Resting
                   ELSE [pc |-> "pruning", doomed |-> ToDelete(Versions)]
  OBVIOUS
<1>2. /\ refresh' = [refresh EXCEPT ![r] = k] /\ UNCHANGED <<now, served, store, lost>>
      /\ refresh[r].pc = "saved"
  BY <1>1 DEF PruneListed
<1>3. ~Quietly(refresh[r])
  BY <1>2 DEF Quietly
<1>4. /\ \A v \in Versions : v \in Nat /\ v <= served.version
      /\ served.version \in Nat
  BY <1>3 DEF MasterInv, Restored, Refreshed, Versions
<1>5. ASSUME NEW v \in ToDelete(Versions) PROVE v \in Nat /\ v < served.version
  <2>1. v \in Versions /\ Cardinality({w \in Versions : w > v}) >= 2
    BY DEF ToDelete, VersionsToRetain
  <2>2. {w \in Versions : w > v} # {}
    BY <2>1, FS_EmptySet
  <2>3. QED
    BY <1>4, <2>1, <2>2
<1>6. IsRefresh(k, served.version) /\ k.pc # "saving"
  BY <1>1, <1>5 DEF IsRefresh, Resting
<1>7. QED
  BY <1>2, <1>3, <1>6, RefreshMoves

LEMMA PrunedKeeps ==
    ASSUME NEW r \in Refreshes, MasterInv, Pruned(r)
    PROVE  MasterInv'
<1>1. /\ refresh[r].pc = "pruning" /\ UNCHANGED <<now, served, lost>>
      /\ store' = {d \in store : d.version \notin refresh[r].doomed}
      /\ refresh' = [refresh EXCEPT ![r] = Resting]
  BY DEF Pruned
<1>2. Refreshed /\ \A v \in refresh[r].doomed : v < served.version
  BY <1>1 DEF MasterInv, Restored, Quietly, Refreshed, IsRefresh
<1>3. /\ refresh' = [q \in Refreshes |-> refresh'[q]]
      /\ \A q \in Refreshes : refresh'[q] = IF q = r THEN Resting ELSE refresh[q]
  BY <1>1 DEF MasterInv
<1>4. \A d \in store' : d.version \in Nat /\ IsPast(d.version, served'.version, now') /\ d \in store
  BY <1>1 DEF MasterInv, IsPast
<1>5. served.version \notin refresh[r].doomed
  BY <1>2 DEF MasterInv
<1>6. Stored(served.version, store') = Stored(served.version, store)
  BY <1>1, <1>5 DEF Stored
<1>7. \A q \in Refreshes :
        /\ IsRefresh(refresh'[q], served.version)
        /\ \A v : IsSaving(refresh'[q], v) <=> IsSaving(refresh[q], v)
        /\ refresh'[q].pc = "saving" => q # r /\ refresh'[q] = refresh[q]
  BY <1>1, <1>2, <1>3 DEF Refreshed, IsRefresh, IsSaving, Resting
<1>8. IsWhole(served.version, served.content, store, refresh)
        => IsWhole(served.version, served.content, store', refresh')
  BY <1>6, <1>7 DEF IsWhole
<1>9. IsBeingSaved(served.version, served.content, store, refresh)
        => IsBeingSaved(served.version, served.content, store', refresh')
  BY <1>1, <1>3, <1>6, <1>7 DEF IsBeingSaved, IsSaving
<1>10. \A p, q \in Refreshes :
         refresh'[p].pc = "saving" /\ refresh'[q].pc = "saving"
           /\ refresh'[p].version = refresh'[q].version => p = q
  BY <1>2, <1>7 DEF Refreshed
<1>11. Refreshed'
  BY <1>1, <1>2, <1>4, <1>7, <1>8, <1>9, <1>10 DEF Refreshed
<1>12. QED
  BY <1>1, <1>3, <1>4, <1>11 DEF MasterInv

(* A batch is saved: what is stored and what is left stay the catalogue.     *)
LEMMA BatchSavedKeeps ==
    ASSUME NEW r \in Refreshes, MasterInv, BatchSaved(r)
    PROVE  MasterInv'
<1>1. PICK p \in refresh[r].left :
        /\ store' = store \cup {[version |-> refresh[r].version, piece |-> p]}
        /\ refresh' = [refresh EXCEPT ![r] =
                         IF refresh[r].left \ {p} = {} THEN [pc |-> "saved"]
                         ELSE SavingBatches(refresh[r].version, refresh[r].left \ {p})]
  BY DEF BatchSaved
<1>2. refresh[r].pc = "saving" /\ UNCHANGED <<now, served, lost>>
  BY DEF BatchSaved
<1>3. Refreshed /\ refresh[r].version \in Nat /\ refresh[r].version <= served.version
  BY <1>2 DEF MasterInv, Restored, Quietly, Refreshed, IsRefresh
<1>4. PICK v : v = refresh[r].version
  OBVIOUS
<1>5. PICK rest : rest = refresh[r].left \ {p}
  OBVIOUS
<1>6. PICK k : k = IF rest = {} THEN [pc |-> "saved"] ELSE SavingBatches(v, rest)
  OBVIOUS
<1>7. /\ refresh' = [q \in Refreshes |-> refresh'[q]]
      /\ \A q \in Refreshes : refresh'[q] = IF q = r THEN k ELSE refresh[q]
  BY <1>1, <1>4, <1>5, <1>6 DEF MasterInv
<1>8. /\ k.pc \in {"saved", "saving"}
      /\ k.pc = "saved" => rest = {}
      /\ k.pc = "saving" => /\ k = [pc |-> k.pc, version |-> k.version, left |-> k.left]
                            /\ k.version = v /\ k.left = rest
  BY <1>6 DEF SavingBatches
<1>9. PICK d : d = [version |-> v, piece |-> p]
  OBVIOUS
<1>10. store' = store \cup {d} /\ d.version = v /\ d.piece = p
  BY <1>1, <1>4, <1>9
<1>11. \A e \in store' : e.version \in Nat /\ e.version <= served.version
  BY <1>3, <1>4, <1>10 DEF MasterInv, Refreshed
<1>12. \A e \in store' : IsPast(e.version, served'.version, now')
  BY <1>2, <1>11 DEF IsPast
<1>13. \A q \in Refreshes : IsRefresh(refresh'[q], served.version)
  BY <1>3, <1>4, <1>7, <1>8, ZenonT(30) DEF Refreshed, IsRefresh
<1>14. \A q, s \in Refreshes :
         refresh'[q].pc = "saving" /\ refresh'[s].pc = "saving"
           /\ refresh'[q].version = refresh'[s].version => q = s
  BY <1>2, <1>3, <1>4, <1>7, <1>8 DEF Refreshed
<1>15. PICK sv : sv = served.version
  OBVIOUS
<1>16. CASE v # sv
  <2>1. Stored(sv, store') = Stored(sv, store)
    BY <1>10, <1>16 DEF Stored
  <2>2. \A q \in Refreshes :
          /\ IsSaving(refresh'[q], sv) <=> IsSaving(refresh[q], sv)
          /\ IsSaving(refresh'[q], sv) => refresh'[q] = refresh[q]
    BY <1>2, <1>4, <1>7, <1>8, <1>16 DEF IsSaving
  <2>3. IsWhole(sv, served.content, store, refresh) => IsWhole(sv, served.content, store', refresh')
    BY <2>1, <2>2 DEF IsWhole
  <2>4. IsBeingSaved(sv, served.content, store, refresh)
          => IsBeingSaved(sv, served.content, store', refresh')
    BY <2>1, <2>2 DEF IsBeingSaved
  <2>5. QED
    BY <1>2, <1>3, <1>7, <1>11, <1>12, <1>13, <1>14, <1>15, <2>3, <2>4 DEF MasterInv, Refreshed
<1>17. CASE v = sv
  <2>1. Stored(sv, store') = Stored(sv, store) \cup {p}
    BY <1>10, <1>17 DEF Stored
  <2>2. IsSaving(refresh[r], sv)
    BY <1>2, <1>4, <1>17 DEF IsSaving
  <2>3. \A q \in Refreshes : IsSaving(refresh[q], sv) => q = r
    BY <1>2, <1>3, <2>2 DEF Refreshed, IsSaving
  <2>4. ~IsWhole(sv, served.content, store, refresh)
    BY <2>2 DEF IsWhole
  <2>5. ASSUME IsBeingSaved(sv, served.content, store, refresh)
        PROVE  \/ IsWhole(sv, served.content, store', refresh')
               \/ IsBeingSaved(sv, served.content, store', refresh')
    <3>1. Stored(sv, store) \cup refresh[r].left = served.content
      BY <2>3, <2>5 DEF IsBeingSaved
    <3>2. Stored(sv, store') \cup rest = served.content
      BY <1>5, <2>1, <3>1
    <3>3. CASE k.pc = "saving"
      <4>1. IsSaving(refresh'[r], sv) /\ refresh'[r].left = rest
        BY <1>7, <1>8, <1>17, <3>3 DEF IsSaving
      <4>2. QED
        BY <3>2, <4>1 DEF IsBeingSaved
    <3>4. CASE k.pc = "saved"
      <4>1. \A q \in Refreshes : ~IsSaving(refresh'[q], sv)
        BY <1>7, <2>3, <3>4 DEF IsSaving
      <4>2. QED
        BY <1>8, <3>2, <3>4, <4>1 DEF IsWhole
    <3>5. QED
      BY <1>8, <3>3, <3>4
  <2>6. QED
    BY <1>2, <1>3, <1>7, <1>11, <1>12, <1>13, <1>14, <1>15, <2>4, <2>5 DEF MasterInv, Refreshed
<1>18. QED
  BY <1>16, <1>17

(* A new catalogue is of a new version.                                      *)
LEMMA SwapIsNew ==
    ASSUME NEW content, NEW before \in Nat, NEW at \in Nat, NEW w, w = Swap(content, before, at)
    PROVE  /\ w = [version |-> w.version, content |-> w.content] /\ w.content = content
           /\ w.version \in Nat /\ w.version > before /\ w.version >= at
<1>1. PICK n : n = Max({at, before + 1})
  OBVIOUS
<1>2. n \in Nat /\ n >= at /\ n >= before + 1
  BY <1>1, MaxOfTwo
<1>3. w = [version |-> n, content |-> content]
  BY <1>1 DEF Swap
<1>4. QED
  BY <1>2, <1>3

LEMMA RefreshFetchedKeeps ==
    ASSUME NEW r \in Refreshes, MasterInv, RefreshFetched(r)
    PROVE  MasterInv'
<1>1. PICK content : /\ content # {} /\ served' = Swap(content, served.version, now)
                     /\ refresh' = [refresh EXCEPT ![r] = SavingBatches(served'.version, content)]
  BY DEF RefreshFetched
<1>2. refresh[r].pc = "fetching" /\ UNCHANGED <<now, store, lost>>
  BY DEF RefreshFetched
<1>3. PICK w : w = served'
  OBVIOUS
<1>4. /\ w = [version |-> w.version, content |-> w.content] /\ w.content = content
      /\ w.version \in Nat /\ w.version > served.version /\ w.version >= now
  BY <1>1, <1>3, SwapIsNew DEF MasterInv
<1>5. PICK k : k = SavingBatches(w.version, content)
  OBVIOUS
<1>6. /\ k = [pc |-> k.pc, version |-> k.version, left |-> k.left]
      /\ k.pc = "saving" /\ k.version = w.version /\ k.left = content
  BY <1>5 DEF SavingBatches
<1>7. /\ refresh' = [q \in Refreshes |-> refresh'[q]]
      /\ \A q \in Refreshes : refresh'[q] = IF q = r THEN k ELSE refresh[q]
  BY <1>1, <1>3, <1>5 DEF MasterInv
<1>8. \A d \in store : d.version \in Nat /\ d.version < w.version
  BY <1>4 DEF MasterInv, IsPast
<1>9. \A d \in store : IsPast(d.version, served'.version, now')
  BY <1>3, <1>4, <1>8 DEF IsPast
<1>10. \A q \in Refreshes :
         /\ IsRefresh(refresh[q], served.version)
         /\ refresh[q].pc = "saving" => refresh[q].version \in Nat /\ refresh[q].version < w.version
  BY <1>4 DEF MasterInv, Restored, Refreshed, Quietly, IsRefresh
<1>11. \A q \in Refreshes : IsRefresh(refresh[q], w.version)
  BY <1>4, <1>10 DEF IsRefresh, MasterInv
<1>12. IsRefresh(k, w.version)
  BY <1>4, <1>6 DEF IsRefresh
<1>13. \A p, q \in Refreshes :
         refresh[p].pc = "saving" /\ refresh[q].pc = "saving"
           /\ refresh[p].version = refresh[q].version => p = q
  BY DEF MasterInv, Restored, Refreshed, Quietly
<1>14. \A p, q \in Refreshes :
         refresh'[p].pc = "saving" /\ refresh'[q].pc = "saving"
           /\ refresh'[p].version = refresh'[q].version => p = q
  BY <1>6, <1>7, <1>10, <1>13
<1>15. Stored(w.version, store) = {}
  BY <1>8 DEF Stored
<1>16. IsBeingSaved(w.version, content, store, refresh')
  BY <1>6, <1>7, <1>15 DEF IsBeingSaved, IsSaving
<1>17. /\ w.version > 0 /\ content # {} /\ \A d \in store : d.version <= w.version
       /\ \A q \in Refreshes : IsRefresh(refresh'[q], w.version)
  BY <1>1, <1>4, <1>7, <1>8, <1>11, <1>12 DEF MasterInv
<1>18. Refreshed'
  BY <1>2, <1>3, <1>4, <1>14, <1>16, <1>17 DEF Refreshed
<1>19. QED
  BY <1>2, <1>3, <1>4, <1>7, <1>8, <1>9, <1>18 DEF MasterInv

(* The clock of a start is past every version.                               *)
LEMMA RestartIsLater ==
    ASSUME MasterInv, RestartProcess
    PROVE  /\ now' \in Nat /\ now < now' /\ served.version < now'
           /\ \A v \in Nat : IsPast(v, served.version, now) => v < now'
<1>1. PICK S : S = {now, served.version} \cup Versions
  OBVIOUS
<1>2. S \in SUBSET Nat /\ S # {} /\ now \in S /\ served.version \in S
  BY <1>1 DEF MasterInv, Versions
<1>3. now + served.version \in Nat /\ \A x \in S : x <= now + served.version
  BY <1>1 DEF MasterInv, Versions, IsPast
<1>4. Max(S) \in S /\ \A x \in S : x <= Max(S)
  BY <1>2, <1>3, GreatestOf
<1>5. PICK m : m = Max(S)
  OBVIOUS
<1>6. m \in Nat /\ now <= m /\ served.version <= m
  BY <1>2, <1>4, <1>5
<1>7. now' = m + 1
  BY <1>1, <1>5 DEF RestartProcess
<1>8. now' \in Nat /\ now < now' /\ served.version < now'
  BY <1>6, <1>7 DEF MasterInv
<1>9. QED
  BY <1>8 DEF IsPast, MasterInv

LEMMA RestartKeeps ==
    ASSUME MasterInv, RestartProcess
    PROVE  MasterInv'
<1>1. /\ now' \in Nat /\ now < now' /\ served.version < now'
      /\ \A v \in Nat : IsPast(v, served.version, now) => v < now'
  BY RestartIsLater
<1>2. PICK content \in {FindLatestSnapshot, {}} : OnModuleInit(content)
  BY DEF RestartProcess
<1>3. UNCHANGED store
  BY DEF RestartProcess
<1>4. \A d \in store : d.version \in Nat /\ IsPast(d.version, served'.version, now')
  BY <1>1 DEF MasterInv, IsPast
<1>5. /\ served' = [version |-> served'.version, content |-> served'.content]
      /\ served'.version \in Nat
      /\ served'.version = 0 => served'.content = {}
      /\ served'.version > 0 => served'.content = FindLatestSnapshot
  <2>1. CASE content = {}
    <3>1. PICK w : w = Empty
      OBVIOUS
    <3>2. w = [version |-> w.version, content |-> w.content] /\ w.version = 0 /\ w.content = {}
      BY <3>1 DEF Empty
    <3>3. served' = w
      BY <1>2, <2>1, <3>1 DEF OnModuleInit
    <3>4. QED
      BY <3>2, <3>3
  <2>2. CASE content # {}
    <3>1. PICK w : w = Swap(content, 0, now')
      OBVIOUS
    <3>2. w = [version |-> w.version, content |-> w.content] /\ w.content = content
          /\ w.version \in Nat /\ w.version > 0
      BY <1>1, <3>1, SwapIsNew
    <3>3. served' = w
      BY <1>2, <2>2, <3>1 DEF OnModuleInit
    <3>4. QED
      BY <1>2, <2>2, <3>2, <3>3
  <2>3. QED
    BY <2>1, <2>2
<1>6. /\ refresh' = [r \in Refreshes |-> refresh'[r]]
      /\ \A r \in Refreshes : refresh'[r] = Fetching \/ refresh'[r] = Resting
  BY <1>2 DEF OnModuleInit
<1>7. \A r \in Refreshes : Quietly(refresh'[r])
  BY <1>6 DEF Quietly, Fetching, Resting
<1>8. Restored'
  BY <1>3, <1>5, <1>7 DEF Restored, FindLatestSnapshot, Versions, OfVersion
<1>9. QED
  BY <1>1, <1>3, <1>4, <1>5, <1>6, <1>8 DEF MasterInv
(* What the form does leaves the catalogue alone.                            *)
FormStep ==
    \/ \E words \in Queries : Types(words)
    \/ ExpiriesAnswered \/ TradeAnswered
    \/ \E c \in form.choices \cup {None} : SelectExpiry(c)
    \/ \E lots \in LotCounts : Submits(lots)

LEMMA FormStepIsApart ==
    ASSUME FormStep
    PROVE  UNCHANGED <<now, served, store, lost, refresh>>
BY DEF FormStep, Types, ExpiriesAnswered, TradeAnswered, SelectExpiry, Submits, master

LEMMA MasterNextKeeps == MasterInv /\ [MasterNext]_masterVars => MasterInv'
<1>. SUFFICES ASSUME MasterInv, [MasterNext]_masterVars PROVE MasterInv'
  OBVIOUS
<1>1. now \in Nat /\ now <= now /\ now + 1 \in Nat /\ now <= now + 1
  BY DEF MasterInv
<1>2. CASE DayPasses
  BY <1>1, <1>2, SameMaster DEF DayPasses, master
<1>3. CASE Publishes
  BY <1>1, <1>3, SameMaster DEF Publishes
<1>4. CASE FormStep
  BY <1>1, <1>4, FormStepIsApart, SameMaster
<1>5. CASE UNCHANGED masterVars
  BY <1>1, <1>5, SameMaster DEF masterVars, master
<1>6. CASE RestartProcess
  BY <1>6, RestartKeeps
<1>7. ASSUME NEW r \in Refreshes,
             \/ RefreshStarts(r) \/ RefreshFetched(r) \/ RefreshFails(r) \/ BatchSaved(r)
             \/ SaveFails(r) \/ PruneListed(r) \/ Pruned(r)
      PROVE  MasterInv'
  BY <1>7, RefreshStartsKeeps, RefreshFetchedKeeps, BatchSavedKeeps, SaveFailsKeeps,
     PruneListedKeeps, PrunedKeeps
<1>8. QED
  BY <1>2, <1>3, <1>4, <1>5, <1>6, <1>7 DEF MasterNext, FormStep

(* The backup that the next start will serve is the catalogue that is served *)
(* now, once no save is under way and none was cut short.                    *)
THEOREM LatestIsBackedUp == MasterSpec => []BackupIsTheLatest
<1>1. MasterInv => BackupIsTheLatest
  <2>1. SUFFICES ASSUME MasterInv, served.version > 0, Versions # {},
                        \A r \in Refreshes : refresh[r].pc # "saving",
                        served.version \notin lost
                 PROVE  FindLatestSnapshot = served.content
    BY DEF BackupIsTheLatest
  <2>2. CASE Restored
    BY <2>1, <2>2 DEF Restored
  <2>3. CASE Refreshed
    <3>1. Stored(served.version, store) = served.content /\ served.content # {}
      BY <2>1, <2>3 DEF Refreshed, IsWhole, IsBeingSaved, IsSaving
    <3>2. /\ \A v \in Versions : v \in Nat /\ v <= served.version
          /\ served.version \in Versions /\ served.version \in Nat
      BY <2>1, <2>3, <3>1 DEF MasterInv, Refreshed, Versions, Stored
    <3>3. Max(Versions) \in Versions /\ \A v \in Versions : v <= Max(Versions)
      <4>1. Versions \in SUBSET Nat
        BY <3>2
      <4>2. QED
        BY <2>1, <3>2, <4>1, GreatestOf
    <3>4. PICK m : m = Max(Versions)
      OBVIOUS
    <3>5. m = served.version
      BY <3>2, <3>3, <3>4
    <3>6. OfVersion(m) = served.content
      BY <3>1, <3>5 DEF OfVersion, Stored
    <3>7. QED
      BY <2>1, <3>4, <3>6 DEF FindLatestSnapshot
  <2>4. QED
    BY <2>1, <2>2, <2>3 DEF MasterInv
<1>2. QED
  BY InitMasterInv, MasterNextKeeps, <1>1, PTL DEF MasterSpec
-----------------------------------------------------------------------------
(* The form.  What was offered, and what was shown of a trade that is sent,  *)
(* is of the catalogue of that version, which never comes back.              *)

Offers(words) == {x.contract : x \in FindMatches(ParseSymbolInput(words))}

IsForm(f) ==
    /\ f = [words |-> f.words, asking |-> f.asking, choices |-> f.choices,
            chosen |-> f.chosen, at |-> f.at]
    /\ f.at \in Nat /\ (f.at = 0 => f.choices = {})
    /\ f.chosen \in f.choices \cup {None}
    /\ f.asking => f.choices = {}

IsDraft(d) ==
    \/ d.state = "none"
    \/ /\ d = [state |-> d.state, words |-> d.words, quantity |-> d.quantity,
               shown |-> d.shown, at |-> d.at, answer |-> d.answer]
       /\ d.state \in {"sent", "accepted", "refused", "unreachable"}
       /\ d.at \in Nat /\ d.at # 0
       /\ d.state = "accepted" /\ d.at = d.answer.at => d.answer.contract = d.shown

FormInv ==
    /\ served.version = 0 => served.content = {}
    /\ IsForm(form) /\ IsPast(form.at, served.version, now)
    /\ form.at = served.version => form.choices \subseteq Offers(form.words)
    /\ IsDraft(draft)
    /\ draft.state = "sent" =>
         /\ IsPast(draft.at, served.version, now)
         /\ draft.at = served.version => draft.shown \in Offers(draft.words)

LEMMA InitFormInv == MasterInit => FormInv
<1>. SUFFICES ASSUME MasterInit PROVE FormInv
  OBVIOUS
<1>1. PICK f : f = Blank
  OBVIOUS
<1>2. IsForm(f) /\ f.at = 0 /\ f.choices = {}
  BY <1>1 DEF Blank, IsForm
<1>3. form = f /\ draft = NoRequest /\ served = Empty /\ now = 0
  BY <1>1 DEF MasterInit, InitForm, InitMaster
<1>4. draft.state = "none"
  BY <1>3 DEF NoRequest
<1>5. served.content = {} /\ served.version = 0
  BY <1>3 DEF Empty
<1>6. QED
  BY <1>2, <1>3, <1>4, <1>5 DEF FormInv, IsDraft, IsPast

LEMMA OffersSame ==
    ASSUME UNCHANGED served
    PROVE  \A words : Offers(words)' = Offers(words)
BY DEF Offers, FindMatches, OfType, FindByUnderlying, HeldList

(* What the resolver makes of a call that means a contract offered           *)
LEMMA ResolvesOffered ==
    ASSUME NEW words, NEW day, NEW c \in Offers(words),
           day = None \/ (c.expiry # None /\ DayOf(c.expiry) = day)
    PROVE  /\ Resolve(words, day).contract \in {c, None}
           /\ Resolve(words, day).code = None => Resolve(words, day).contract = c
<1>1. PICK parsed : parsed = ParseSymbolInput(words)
  OBVIOUS
<1>2. PICK matches :
        matches = {x \in FindMatches(parsed) :
                     day = None \/ (x.contract.expiry # None /\ DayOf(x.contract.expiry) = day)}
  OBVIOUS
<1>3. PICK first : first = (CHOOSE x \in matches : TRUE).contract
  OBVIOUS
<1>4. PICK no : no = NoMatch(words)
  OBVIOUS
<1>5. Resolve(words, day) =
        IF no # None THEN Refused(no)
        ELSE IF matches = {} THEN Refused("EXPIRY_NOT_AVAILABLE")
        ELSE IF MoreThanOne(matches) # None THEN Refused(MoreThanOne(matches))
        ELSE IF Unfit(parsed, first) # None THEN Refused(Unfit(parsed, first))
        ELSE [code |-> None, contract |-> first]
  BY <1>1, <1>2, <1>3, <1>4 DEF Resolve
<1>6. PICK y \in matches : y.contract = c
  BY <1>1, <1>2 DEF Offers
<1>7. CASE \E code : code # None /\ Resolve(words, day) = Refused(code)
  BY <1>7 DEF Refused
<1>8. CASE MoreThanOne(matches) = None /\ Resolve(words, day) = [code |-> None, contract |-> first]
  <2>1. \E x \in matches : matches = {x}
    BY <1>8, MasterAssumption DEF MoreThanOne
  <2>2. matches = {y}
    BY <1>6, <2>1
  <2>3. (CHOOSE x \in matches : TRUE) = y
    BY <2>2
  <2>4. first = c
    BY <1>3, <1>6, <2>3
  <2>5. QED
    BY <1>8, <2>4
<1>9. QED
  BY <1>5, <1>6, <1>7, <1>8

LEMMA ExpiriesAreOffered ==
    ASSUME NEW words
    PROVE  ResolveExpiries(words) \subseteq Offers(words)
BY DEF ResolveExpiries, Offers

(* The catalogue stays, or its version becomes one that nothing is of.       *)
LEMMA CatalogueMoves ==
    ASSUME FormInv,
           IsForm(form'), form'.words = form.words, form'.choices = form.choices, form'.at = form.at,
           IsDraft(draft'), draft' = draft \/ draft'.state # "sent",
           served'.version = 0 => served'.content = {},
           \A v \in Nat : IsPast(v, served.version, now) => IsPast(v, served'.version, now'),
           \/ UNCHANGED served
           \/ \A v \in Nat \ {0} : IsPast(v, served.version, now) => v # served'.version
    PROVE  FormInv'
<1>1. IsPast(form.at, served'.version, now')
  BY DEF FormInv, IsForm
<1>2. IsPast(form'.at, served'.version, now')
  BY <1>1 DEF IsPast
<1>3. draft'.state = "sent" => draft.state = "sent" /\ draft' = draft /\ draft.at \in Nat \ {0}
  BY DEF FormInv, IsDraft
<1>4. draft'.state = "sent" => IsPast(draft.at, served'.version, now')
  BY <1>3 DEF FormInv
<1>5. draft'.state = "sent" => IsPast(draft'.at, served'.version, now')
  BY <1>3, <1>4 DEF IsPast
<1>6. CASE UNCHANGED served
  BY <1>2, <1>3, <1>5, <1>6, OffersSame DEF FormInv
<1>7. CASE \A v \in Nat \ {0} : IsPast(v, served.version, now) => v # served'.version
  <2>1. form'.at = served'.version => form'.choices = {}
    BY <1>7 DEF FormInv, IsForm
  <2>2. draft'.state = "sent" => draft'.at # served'.version
    BY <1>3, <1>7 DEF FormInv
  <2>3. QED
    BY <1>2, <1>5, <2>1, <2>2 DEF FormInv
<1>8. QED
  BY <1>6, <1>7

LEMMA TypesKeeps ==
    ASSUME NEW words, MasterInv, FormInv, Types(words)
    PROVE  FormInv'
<1>1. PICK f : f = [Blank EXCEPT !.words = words, !.asking = words # <<>>]
  OBVIOUS
<1>2. IsForm(f) /\ f.choices = {} /\ f.at = 0
  BY <1>1 DEF IsForm, Blank
<1>3. form' = f /\ UNCHANGED <<draft, served, now>>
  BY <1>1 DEF Types, master
<1>4. /\ IsPast(0, served'.version, now')
      /\ draft.state = "sent" => (IsPast(draft'.at, served'.version, now')
                                    <=> IsPast(draft.at, served.version, now))
  BY <1>3 DEF IsPast, MasterInv
<1>5. QED
  BY <1>2, <1>3, <1>4, OffersSame DEF FormInv

LEMMA ExpiriesAnsweredKeeps ==
    ASSUME MasterInv, FormInv, ExpiriesAnswered
    PROVE  FormInv'
<1>1. PICK b : b = FALSE
  OBVIOUS
<1>2. PICK cs : cs = ResolveExpiries(form.words)
  OBVIOUS
<1>3. PICK f : f = [form EXCEPT !.asking = b, !.choices = cs, !.at = served.version]
  OBVIOUS
<1>4. form' = f /\ UNCHANGED <<draft, served, now>> /\ form.asking
  BY <1>1, <1>2, <1>3 DEF ExpiriesAnswered, master
<1>5. cs \subseteq Offers(form.words)
  BY <1>2, ExpiriesAreOffered
<1>6. served.version = 0 => cs = {}
  <2>1. served.version = 0 => Offers(form.words) = {}
    BY DEF FormInv, Offers, FindMatches, OfType, FindByUnderlying, HeldList
  <2>2. QED
    BY <1>5, <2>1
<1>7. form.chosen = None
  BY <1>4 DEF FormInv, IsForm
<1>8. /\ f = [words |-> f.words, asking |-> f.asking, choices |-> f.choices,
              chosen |-> f.chosen, at |-> f.at]
      /\ f.words = form.words /\ f.asking = b /\ f.choices = cs /\ f.chosen = form.chosen
      /\ f.at = served.version
  BY <1>3 DEF FormInv, IsForm
<1>9. ~f.asking
  BY <1>1, <1>8
<1>10. IsForm(f)
  BY <1>6, <1>7, <1>8, <1>9 DEF IsForm, MasterInv
<1>11. /\ IsPast(f.at, served'.version, now')
       /\ draft.state = "sent" => (IsPast(draft'.at, served'.version, now')
                                     <=> IsPast(draft.at, served.version, now))
  BY <1>4, <1>8 DEF IsPast, MasterInv
<1>12. QED
  BY <1>4, <1>5, <1>8, <1>10, <1>11, OffersSame DEF FormInv

LEMMA SelectExpiryKeeps ==
    ASSUME NEW c \in form.choices \cup {None}, FormInv, SelectExpiry(c)
    PROVE  FormInv'
<1>1. PICK f : f = [form EXCEPT !.chosen = c]
  OBVIOUS
<1>2. form' = f /\ UNCHANGED <<draft, served, now>>
  BY <1>1 DEF SelectExpiry, master
<1>3. IsForm(f) /\ f.words = form.words /\ f.choices = form.choices /\ f.at = form.at
  BY <1>1 DEF FormInv, IsForm
<1>4. \A v \in Nat : IsPast(v, served.version, now) => IsPast(v, served'.version, now')
  BY <1>2 DEF IsPast
<1>5. served'.version = 0 => served'.content = {}
  BY <1>2 DEF FormInv
<1>6. IsDraft(draft)
  BY DEF FormInv
<1>7. QED
  BY <1>2, <1>3, <1>4, <1>5, <1>6, CatalogueMoves

(* What is shown, when there is something, was offered.                      *)
LEMMA ShownIsOffered ==
    ASSUME FormInv, Shown # None
    PROVE  Shown \in form.choices
<1>1. CASE Cardinality(form.choices) = 1
  <2>1. form.choices # {}
    BY <1>1, FS_EmptySet
  <2>2. QED
    BY <1>1, <2>1 DEF Shown
<1>2. CASE Cardinality(form.choices) # 1
  BY <1>2 DEF Shown, FormInv, IsForm
<1>3. QED
  BY <1>1, <1>2

LEMMA SubmitsKeeps ==
    ASSUME NEW lots, FormInv, Submits(lots)
    PROVE  FormInv'
<1>1. PICK s : s = Shown
  OBVIOUS
<1>2. PICK n : n = lots * s.lotSize
  OBVIOUS
<1>3. PICK d : d = [state |-> "sent", words |-> form.words, quantity |-> n, shown |-> s,
                    at |-> form.at, answer |-> None]
  OBVIOUS
<1>4. draft' = d /\ UNCHANGED <<form, served, now>> /\ s # None
  BY <1>1, <1>2, <1>3 DEF Submits, master
<1>5. s \in form.choices
  BY <1>1, <1>4, ShownIsOffered
<1>6. form.at \in Nat /\ form.at # 0
  BY <1>5 DEF FormInv, IsForm
<1>7. IsDraft(d) /\ d.at = form.at /\ d.shown = s /\ d.words = form.words
  BY <1>3, <1>6 DEF IsDraft
<1>8. IsPast(form'.at, served'.version, now')
  BY <1>4 DEF FormInv, IsPast
<1>9. form.at = served.version => s \in Offers(form.words)
  BY <1>5 DEF FormInv
<1>10. IsPast(draft'.at, served'.version, now')
  BY <1>4, <1>7, <1>8 DEF IsPast
<1>11. QED
  BY <1>4, <1>7, <1>8, <1>9, <1>10, OffersSame DEF FormInv

LEMMA TradeAnsweredKeeps ==
    ASSUME MasterInv, FormInv, TradeAnswered
    PROVE  FormInv'
<1>1. PICK found : found = Resolve(draft.words, None)
  OBVIOUS
<1>2. PICK code : code = IF found.code # None THEN found.code
                         ELSE QuantityRule(draft.quantity, found.contract)
  OBVIOUS
<1>3. PICK a : a = [code |-> code, contract |-> found.contract, at |-> served.version]
  OBVIOUS
<1>4. PICK state : state = IF code = None THEN "accepted" ELSE "refused"
  OBVIOUS
<1>5. PICK d : d = [draft EXCEPT !.state = state, !.answer = a]
  OBVIOUS
<1>6. /\ draft.state = "sent" /\ draft' = d /\ UNCHANGED <<served, now>>
      /\ form' = IF code = None THEN Blank ELSE form
  BY <1>1, <1>2, <1>3, <1>4, <1>5 DEF TradeAnswered, InstrumentExistsRule, master
<1>7. /\ draft = [state |-> draft.state, words |-> draft.words, quantity |-> draft.quantity,
                  shown |-> draft.shown, at |-> draft.at, answer |-> draft.answer]
      /\ draft.at \in Nat /\ draft.at # 0
  BY <1>6 DEF FormInv, IsDraft
<1>8. /\ d = [state |-> d.state, words |-> d.words, quantity |-> d.quantity,
              shown |-> d.shown, at |-> d.at, answer |-> d.answer]
      /\ d.state = state /\ d.shown = draft.shown /\ d.at = draft.at /\ d.answer = a
  BY <1>5, <1>7
<1>9. a.contract = found.contract /\ a.at = served.version
  BY <1>3
<1>10. ASSUME state = "accepted", d.at = a.at PROVE found.contract = d.shown
  <2>1. found.code = None
    BY <1>2, <1>4, <1>10
  <2>2. draft.shown \in Offers(draft.words)
    BY <1>6, <1>8, <1>9, <1>10 DEF FormInv
  <2>3. QED
    BY <1>1, <1>8, <2>1, <2>2, ResolvesOffered
<1>11. IsDraft(d) /\ d.state # "sent"
  BY <1>4, <1>7, <1>8, <1>9, <1>10 DEF IsDraft
<1>12. \A v \in Nat : IsPast(v, served.version, now) => IsPast(v, served'.version, now')
  BY <1>6 DEF IsPast
<1>13. CASE code # None
  <2>1. UNCHANGED form
    BY <1>6, <1>13
  <2>2. QED
    BY <1>6, <1>11, <1>12, <2>1, CatalogueMoves DEF FormInv
<1>14. CASE code = None
  <2>1. PICK f : f = Blank
    OBVIOUS
  <2>2. IsForm(f) /\ f.choices = {} /\ f.at = 0
    BY <2>1 DEF IsForm, Blank
  <2>3. form' = f
    BY <1>6, <1>14, <2>1
  <2>4. IsPast(form'.at, served'.version, now')
    BY <1>6, <2>2, <2>3 DEF IsPast, MasterInv
  <2>5. QED
    BY <1>6, <1>11, <2>2, <2>3, <2>4 DEF FormInv
<1>15. QED
  BY <1>13, <1>14

LEMMA CatalogueStays ==
    ASSUME FormInv, UNCHANGED <<served, form, draft>>,
           \A v \in Nat : IsPast(v, served.version, now) => IsPast(v, served'.version, now')
    PROVE  FormInv'
<1>1. IsForm(form') /\ IsDraft(draft') /\ (served'.version = 0 => served'.content = {})
  BY DEF FormInv
<1>2. QED
  BY <1>1, CatalogueMoves

LEMMA RestartOffers ==
    ASSUME MasterInv, FormInv, RestartProcess
    PROVE  FormInv'
<1>1. /\ now' \in Nat /\ \A v \in Nat : IsPast(v, served.version, now) => v < now'
  BY RestartIsLater
<1>2. PICK content : served' = IF content = {} THEN Empty ELSE Swap(content, 0, now')
  BY DEF RestartProcess, OnModuleInit
<1>3. /\ served'.version = 0 => served'.content = {}
      /\ served'.version = 0 \/ served'.version >= now'
      /\ served'.version \in Nat
  <2>1. CASE content = {}
    <3>1. served' = Empty
      BY <1>2, <2>1
    <3>2. QED
      BY <3>1 DEF Empty
  <2>2. CASE content # {}
    <3>1. PICK w : w = Swap(content, 0, now')
      OBVIOUS
    <3>2. served' = w
      BY <1>2, <2>2, <3>1
    <3>3. w.version \in Nat /\ w.version > 0 /\ w.version >= now'
      BY <1>1, <3>1, SwapIsNew
    <3>4. QED
      BY <3>2, <3>3
  <2>3. QED
    BY <2>1, <2>2
<1>4. \A v \in Nat \ {0} : IsPast(v, served.version, now) => v # served'.version
  BY <1>1, <1>3
<1>5. \A v \in Nat : IsPast(v, served.version, now) => IsPast(v, served'.version, now')
  BY <1>1 DEF IsPast
<1>6. PICK b : b = FALSE
  OBVIOUS
<1>7. PICK f : f = [form EXCEPT !.asking = b]
  OBVIOUS
<1>8. /\ f = [words |-> f.words, asking |-> f.asking, choices |-> f.choices,
              chosen |-> f.chosen, at |-> f.at]
      /\ f.words = form.words /\ f.asking = b /\ f.choices = form.choices
      /\ f.chosen = form.chosen /\ f.at = form.at
  BY <1>7 DEF FormInv, IsForm
<1>9. ~f.asking
  BY <1>6, <1>8
<1>10. IsForm(f)
  BY <1>8, <1>9 DEF FormInv, IsForm
<1>11. form' = f \/ form' = form
  BY <1>6, <1>7 DEF RestartProcess
<1>12. IsForm(form') /\ form'.words = form.words /\ form'.choices = form.choices
       /\ form'.at = form.at
  BY <1>8, <1>10, <1>11 DEF FormInv
<1>13. PICK d : d = [draft EXCEPT !.state = "unreachable"]
  OBVIOUS
<1>14. draft.state = "sent" => IsDraft(d) /\ d.state # "sent"
  BY <1>13 DEF FormInv, IsDraft
<1>15. draft' = IF draft.state = "sent" THEN d ELSE draft
  BY <1>13 DEF RestartProcess
<1>16. IsDraft(draft') /\ (draft' = draft \/ draft'.state # "sent")
  BY <1>14, <1>15 DEF FormInv
<1>17. QED
  BY <1>3, <1>4, <1>5, <1>12, <1>16, CatalogueMoves

LEMMA FetchedOffers ==
    ASSUME NEW r \in Refreshes, MasterInv, FormInv, RefreshFetched(r)
    PROVE  FormInv'
<1>1. PICK content : served' = Swap(content, served.version, now)
  BY DEF RefreshFetched
<1>2. UNCHANGED <<now, form, draft>>
  BY DEF RefreshFetched
<1>3. PICK w : w = served'
  OBVIOUS
<1>4. w.version \in Nat /\ w.version > served.version /\ w.version >= now
  BY <1>1, <1>3, SwapIsNew DEF MasterInv
<1>5. served.version \in Nat /\ now \in Nat
  BY DEF MasterInv
<1>6. \A v \in Nat : IsPast(v, served.version, now) => v # w.version /\ v <= w.version
  BY <1>4, <1>5 DEF IsPast
<1>7. \A v \in Nat : IsPast(v, served.version, now) => IsPast(v, served'.version, now')
  BY <1>3, <1>6 DEF IsPast
<1>8. IsForm(form') /\ IsDraft(draft') /\ served'.version # 0
  BY <1>2, <1>3, <1>4, <1>5 DEF FormInv
<1>9. QED
  BY <1>2, <1>3, <1>6, <1>7, <1>8, CatalogueMoves

LEMMA MasterNextOffers ==
    ASSUME MasterInv, FormInv, [MasterNext]_masterVars
    PROVE  FormInv'
<1>1. now \in Nat /\ \A v \in Nat : v < now => v < now + 1
  BY DEF MasterInv
<1>2. CASE DayPasses
  BY <1>1, <1>2, CatalogueStays DEF DayPasses, master, IsPast
<1>3. CASE Publishes \/ UNCHANGED masterVars
  BY <1>3, CatalogueStays DEF Publishes, masterVars, master, IsPast
<1>4. ASSUME NEW r \in Refreshes,
             \/ RefreshStarts(r) \/ RefreshFails(r) \/ BatchSaved(r) \/ SaveFails(r)
             \/ PruneListed(r) \/ Pruned(r)
      PROVE  FormInv'
  <2>1. UNCHANGED <<now, served, form, draft>>
    BY <1>4 DEF RefreshStarts, RefreshFails, BatchSaved, SaveFails, PruneListed, Pruned
  <2>2. QED
    BY <2>1, CatalogueStays DEF IsPast
<1>5. CASE FormStep
  BY <1>5, TypesKeeps, ExpiriesAnsweredKeeps, TradeAnsweredKeeps, SelectExpiryKeeps, SubmitsKeeps
     DEF FormStep
<1>6. QED
  BY <1>2, <1>3, <1>4, <1>5, RestartOffers, FetchedOffers DEF MasterNext, FormStep

(* A call is never taken for another contract than the one that was offered  *)
(* or shown, while the catalogue is the same.                                *)
THEOREM NoOtherContract == MasterSpec => []NeverAnother
<1>1. FormInv => NeverAnother
  <2>1. SUFFICES ASSUME FormInv PROVE NeverAnother
    OBVIOUS
  <2>2. ASSUME form.at = served.version, NEW c \in form.choices, c.expiry # None
        PROVE  Resolve(form.words, DayOf(c.expiry)).contract \in {c, None}
    <3>1. c \in Offers(form.words)
      BY <2>1, <2>2 DEF FormInv
    <3>2. QED
      BY <2>2, <3>1, ResolvesOffered
  <2>3. ASSUME draft.state = "accepted", draft.at = draft.answer.at
        PROVE  draft.answer.contract = draft.shown
    BY <2>1, <2>3 DEF FormInv, IsDraft
  <2>4. QED
    BY <2>2, <2>3 DEF NeverAnother
<1>2. MasterInv /\ FormInv /\ [MasterNext]_masterVars => FormInv'
  BY MasterNextOffers
<1>3. QED
  BY InitMasterInv, InitFormInv, MasterNextKeeps, <1>1, <1>2, PTL DEF MasterSpec
-----------------------------------------------------------------------------
(* The views.  What is said of a trade that is over is how it ended, and what *)
(* ended is on its way to the archive; a step that is kept, or is about to    *)
(* be, is not beyond a stop that no target has moved.                         *)

IsViewed(t, tr) ==
    /\ tr \in TradeRecord(Definitions[t], Int)
    /\ tr.state \in {"WAITING_ENTRY", "ACTIVE", "COMPLETED", "CANCELLED"}
    /\ tr.state = "WAITING_ENTRY" => tr.entry = "none"
    /\ tr.exit = "SUBMITTED" => tr.state = "ACTIVE"

IsRow(e) ==
    /\ e = [reason |-> e.reason, config |-> e.config, step |-> e.step]
    /\ e.reason \in ExitReasons \cup {Null} /\ e.step \in Int \cup {Null}
    /\ e.config \in [strategy : Strategies, size : Int \cup {Null}, lock : Int \cup {Null}]
                      \cup {Null}

IsPatch(p) ==
    /\ p = [by |-> p.by, trade |-> p.trade, field |-> p.field, value |-> p.value, row |-> p.row]
    /\ p.trade \in ViewedTrades /\ p.field \in {"reason", "config", "step"}
    /\ p.field = "reason" => p.value \in ExitReasons
    /\ p.field = "config" => p.value = Definitions[p.trade].trailing
    /\ p.field = "step" => p.value \in Int
    /\ p.row # Null => IsRow(p.row)

IsTick(k) ==
    /\ k = [trade |-> k.trade, price |-> k.price, snapshot |-> k.snapshot]
    /\ k.trade \in ViewedTrades /\ k.price \in Int /\ IsViewed(k.trade, k.snapshot)

HasEnded(tr) == tr = Null \/ tr.state \in Terminal
HasBegun(tr) == tr = Null \/ tr.state # "WAITING_ENTRY"

IsBehind(t, tr, step) ==
    \/ step = Null \/ HasEnded(tr)
    \/ /\ tr.state = "ACTIVE"
       /\ tr.next > 1 \/ ~Better(Definitions[t].direction, step, tr.stop)

EngineInv ==
    /\ engine = [t \in ViewedTrades |-> engine[t]]
    /\ \A t \in ViewedTrades : engine[t] = Null \/ IsViewed(t, engine[t])

IsKept(t, tr, end, arch, hist) ==
    /\ end = [state |-> end.state, lost |-> end.lost]
    /\ ~HasEnded(tr) => end.state = Null
    /\ tr # Null /\ HasEnded(tr) => end.state = tr.state
    /\ HasEnded(tr) => (tr # Null /\ arch # Null) \/ hist # Null \/ end.lost
    /\ arch # Null => IsViewed(t, arch) /\ arch.state \in Terminal /\ arch.state = end.state
    /\ hist # Null /\ hist.status \in Terminal => hist.status = end.state

ArchiveInv ==
    /\ ended = [t \in ViewedTrades |-> ended[t]]
    /\ archive = [t \in ViewedTrades |-> archive[t]]
    /\ history = [t \in ViewedTrades |-> history[t]]
    /\ \A t \in ViewedTrades : IsKept(t, engine[t], ended[t], archive[t], history[t])

SaysHow(state, end) == state \in Terminal => state = end.state

ReadInv ==
    /\ cache = [t \in ViewedTrades |-> cache[t]]
    /\ reader = [r \in Readers |-> reader[r]]
    /\ \A t \in ViewedTrades : cache[t] # Null => SaysHow(cache[t].status, ended[t])
    /\ \A r \in Readers : \A t \in reader[r].trades : reader[r].pc = "compose" =>
         /\ t \in ViewedTrades /\ IsViewed(t, reader[r].snapshots[t])
         /\ SaysHow(reader[r].snapshots[t].state, ended[t])

StepInv ==
    /\ extension = [t \in ViewedTrades |-> extension[t]]
    /\ known = [t \in ViewedTrades |-> known[t]]
    /\ \A t \in ViewedTrades :
         /\ IsRow(extension[t]) /\ IsBehind(t, engine[t], extension[t].step)
         /\ known[t] = Null \/ IsRow(known[t])
    /\ \A k \in ticks : IsTick(k) /\ HasBegun(engine[k.trade])
    /\ \A p \in patches :
         /\ IsPatch(p)
         /\ p.field = "step" => IsBehind(p.trade, engine[p.trade], p.value)
         /\ p.row # Null => IsBehind(p.trade, engine[p.trade], p.row.step)

ViewsInv == EngineInv /\ ArchiveInv /\ ReadInv /\ StepInv

(* The commands of the aggregate, as the views call them *)
LEMMA DefinitionsAre ==
    ASSUME NEW t \in ViewedTrades
    PROVE  LET def == Definitions[t]
           IN  /\ def.direction \in {"LONG", "SHORT"} /\ def.quantity \in Nat \ {0}
               /\ def.trigger \in Nat /\ def.stop \in Nat
               /\ def.targets \in Seq(Nat \ {0}) /\ Len(def.targets) \in Nat
               /\ \A i \in 1..Len(def.targets) : def.targets[i] \in Int
BY TradeViewsAssumption DEF TradeViewsAssumption, ValidDefinition

LEMMA NullIsNone ==
    /\ Null \notin Int /\ Null \notin Terminal
    /\ \A t \in ViewedTrades : \A tr : IsViewed(t, tr) => tr # Null
BY TradeViewsAssumption DEF TradeViewsAssumption, IsViewed, TradeState

LEMMA WaitingIs ==
    ASSUME NEW t \in ViewedTrades
    PROVE  IsViewed(t, Waiting(t)) /\ Waiting(t).state = "WAITING_ENTRY"
<1> DEFINE def == Definitions[t]
<1>1. PICK tr : tr = New(def)
  OBVIOUS
<1>2. PICK m : m = [tr EXCEPT !.state = "WAITING_ENTRY"]
  OBVIOUS
<1>3. tr.state = "DRAFT"
  BY <1>1 DEF New
<1>4. Waiting(t) = m
  BY <1>1, <1>2, <1>3
     DEF Waiting, Arm, TransitionTo, CanTransition, StateTable, Done, Live
<1>5. PICK no : no = FALSE
  OBVIOUS
<1>6. m = [mode |-> def.mode, state |-> "WAITING_ENTRY", ordered |-> no, entry |-> "none",
           exit |-> "none", fillPrice |-> def.trigger, filled |-> 0, exited |-> 0,
           stop |-> def.stop, next |-> 1, awaiting |-> no, hits |-> {}]
  BY <1>1, <1>2, <1>5 DEF New
<1>7. def.trigger \in Nat /\ def.stop \in Nat /\ 1 \in 1..Len(def.targets) + 1
  BY DefinitionsAre
<1>8. no \in BOOLEAN
  BY <1>5
<1> HIDE DEF def
<1>9. m \in TradeRecord(def, Int)
  BY <1>6, <1>7, <1>8 DEF TradeRecord, TradeState, Terminal, Live, Lifecycle
<1>10. QED
  BY <1>4, <1>6, <1>9 DEF IsViewed, def

LEMMA CancelledIs ==
    ASSUME NEW t \in ViewedTrades, NEW tr, IsViewed(t, tr), tr.state = "WAITING_ENTRY"
    PROVE  IsViewed(t, Cancel(tr).trade) /\ Cancel(tr).trade.state = "CANCELLED"
<1>1. PICK m : m = [tr EXCEPT !.state = "CANCELLED"]
  OBVIOUS
<1>2. Cancel(tr).trade = m
  BY <1>1 DEF Cancel, TransitionTo, CanTransition, StateTable, Done, Live
<1>3. IsViewed(t, m) /\ m.state = "CANCELLED"
  BY <1>1 DEF IsViewed, TradeRecord, TradeState, Terminal, Live
<1>4. QED
  BY <1>2, <1>3

LEMMA FilledIs ==
    ASSUME NEW t \in ViewedTrades, NEW tr, IsViewed(t, tr), tr.state = "WAITING_ENTRY"
    PROVE  LET def == Definitions[t]
               answer == [status |-> "FILLED", price |-> def.trigger, quantity |-> def.quantity]
               m == ApplyEntryOrderResponse(def, TriggerEntry(tr).trade, answer).trade
           IN  IsViewed(t, m) /\ m.state = "ACTIVE"
<1>1. PICK def : def = Definitions[t]
  OBVIOUS
<1>2. PICK answer : answer = [status |-> "FILLED", price |-> def.trigger, quantity |-> def.quantity]
  OBVIOUS
<1>3. PICK sent : sent = [tr EXCEPT !.state = "ENTRY_PENDING", !.entry = "SUBMITTED"]
  OBVIOUS
<1>4. tr.entry = "none"
  BY DEF IsViewed
<1>5. TriggerEntry(tr).trade = sent
  BY <1>3, <1>4 DEF TriggerEntry, CanTransition, StateTable, Done, Live, IsViewed, TradeRecord
<1>7. PICK placed : placed = [sent EXCEPT !.ordered = TRUE]
  OBVIOUS
<1>8. PICK filled : filled = [placed EXCEPT !.entry = "FILLED", !.fillPrice = answer.price,
                                           !.filled = answer.quantity, !.stop = def.stop]
  OBVIOUS
<1>9. PICK m : m = [filled EXCEPT !.state = "ACTIVE"]
  OBVIOUS
<1>10. placed.entry = "SUBMITTED" /\ placed.state = "ENTRY_PENDING"
  BY <1>3, <1>7 DEF IsViewed, TradeRecord
<1>11. CanAdvance("SUBMITTED", "FILLED") /\ CanTransition("ENTRY_PENDING", "ENTRY_FILLED")
  BY DEF CanAdvance, LifecycleTable, CanTransition, StateTable
<1>12. answer.status = "FILLED"
  BY <1>2
<1>13. EntryFills(def, placed, answer).trade = m
  BY <1>8, <1>9, <1>10, <1>11, <1>12 DEF EntryFills, Done
<1>14. ApplyEntryOrderResponse(def, sent, answer).trade = m
  BY <1>7, <1>12, <1>13 DEF ApplyEntryOrderResponse
<1>15. IsViewed(t, m) /\ m.state = "ACTIVE"
  <2>1. /\ answer.price \in Nat /\ answer.quantity \in Nat /\ def.stop \in Nat
    BY <1>1, <1>2, DefinitionsAre
  <2>2. PICK yes : yes = TRUE
    OBVIOUS
  <2>3. m = [mode |-> tr.mode, state |-> "ACTIVE", ordered |-> yes, entry |-> "FILLED",
             exit |-> tr.exit, fillPrice |-> answer.price, filled |-> answer.quantity,
             exited |-> tr.exited, stop |-> def.stop, next |-> tr.next,
             awaiting |-> tr.awaiting, hits |-> tr.hits]
    BY <1>3, <1>7, <1>8, <1>9, <2>2 DEF IsViewed, TradeRecord
  <2>4. QED
    BY <2>1, <2>2, <2>3 DEF IsViewed, TradeRecord, TradeState, Terminal, Live, Lifecycle
<1>16. QED
  BY <1>1, <1>2, <1>5, <1>14, <1>15

LastIs(first, k, hits, last) ==
    /\ last \in Nat /\ last + 1 \in 1..k + 1 /\ last + 1 >= first
    /\ hits = {} => last + 1 = first
    /\ hits # {} => last \in 1..k /\ last + 1 > 1

LEMMA TargetsLeft ==
    ASSUME NEW k \in Nat, NEW first \in Nat, first >= 1, first <= k + 1,
           NEW hits, hits \subseteq first..k, NEW last, last = first + Cardinality(hits) - 1
    PROVE  LastIs(first, k, hits, last)
<1>1. IsFiniteSet(first..k) /\ Cardinality(first..k) = k - first + 1
  <2>1. IsFiniteSet(first..k) /\ Cardinality(first..k) = IF first > k THEN 0 ELSE k - first + 1
    BY FS_Interval
  <2>2. CASE first > k
    BY <2>1, <2>2
  <2>3. CASE ~(first > k)
    BY <2>1, <2>3
  <2>4. QED
    BY <2>2, <2>3
<1>2. IsFiniteSet(hits) /\ Cardinality(hits) <= Cardinality(first..k)
  BY <1>1, FS_Subset
<1>3. PICK n \in Nat : n = Cardinality(hits) /\ (hits = {} <=> n = 0)
  BY <1>2, FS_CardinalityType, FS_EmptySet
<1>4. n <= k - first + 1 /\ last = first + n - 1
  BY <1>1, <1>2, <1>3
<1>5. last \in Nat /\ last + 1 >= first
  BY <1>4
<1>6. last + 1 \in 1..k + 1
  BY <1>4
<1>7. ASSUME hits # {} PROVE last \in 1..k /\ last + 1 > 1
  <2>1. n # 0
    BY <1>3, <1>7, Zenon
  <2>2. n >= 1
    BY <2>1
  <2>3. QED
    BY <1>4, <2>2
<1>8. ASSUME hits = {} PROVE last + 1 = first
  BY <1>3, <1>4, <1>8
<1>9. QED
  BY <1>5, <1>6, <1>7, <1>8 DEF LastIs

(* What a command does to the steps that are kept: none comes to be ahead    *)
KeepsBehind(t, tr, m) == \A s \in Int : IsBehind(t, tr, s) => IsBehind(t, m, s)

LEMMA PriceMoves ==
    ASSUME NEW t \in ViewedTrades, NEW tr, IsViewed(t, tr), tr.state = "ACTIVE", NEW price \in Int,
           NEW m, m = AdvancePrice(Definitions[t], tr, price)
    PROVE  IsViewed(t, m) /\ m.state = "ACTIVE" /\ KeepsBehind(t, tr, m)
<1>1. PICK def : def = Definitions[t]
  OBVIOUS
<1>2. PICK k \in Nat : k = Len(def.targets) /\ \A i \in 1..k : def.targets[i] \in Int
  BY <1>1, DefinitionsAre
<1>3. /\ tr.next \in 1..k + 1 /\ tr.fillPrice \in Int /\ tr.stop \in Int
      /\ tr.hits \subseteq 1..k /\ tr.awaiting \in BOOLEAN
  BY <1>1, <1>2 DEF IsViewed, TradeRecord
<1>4. PICK first \in Nat : first = tr.next /\ first >= 1 /\ first <= k + 1
  BY <1>3
<1>5. PICK hits : hits = Hit(def, tr, price)
  OBVIOUS
<1>6. hits \subseteq first..k
  BY <1>2, <1>4, <1>5 DEF Hit
<1>7. PICK last : last = first + Cardinality(hits) - 1
  OBVIOUS
<1>8a. LastIs(first, k, hits, last)
  <2>1. first >= 1 /\ first <= k + 1
    BY <1>4
  <2>2. QED
    BY <1>6, <1>7, <2>1, TargetsLeft
<1>8. /\ last \in Nat /\ last + 1 \in 1..k + 1 /\ last + 1 >= first
      /\ hits = {} => last + 1 = first
      /\ hits # {} => last \in 1..k /\ last + 1 > 1
  BY <1>8a DEF LastIs
<1>9. PICK stop : stop = IF hits = {} THEN tr.stop ELSE StopAfter(def, tr, last)
  OBVIOUS
<1>10. PICK waits : waits = (tr.awaiting \/ StopCrossed(def.direction, price, stop))
  OBVIOUS
<1>11. m = [tr EXCEPT !.next = last + 1, !.stop = stop, !.hits = tr.hits \cup hits,
                      !.awaiting = waits]
  BY <1>1, <1>4, <1>5, <1>7, <1>9, <1>10 DEF AdvancePrice
<1>12. stop \in Int
  <2>1. CASE hits = {}
    BY <1>3, <1>9, <2>1
  <2>2. CASE hits # {}
    <3>1. last = 1 \/ last - 1 \in 1..k
      BY <1>8, <2>2
    <3>2. StopAfter(def, tr, last) \in Int
      BY <1>2, <1>3, <3>1 DEF StopAfter
    <3>3. QED
      BY <1>9, <2>2, <3>2
  <2>3. QED
    BY <2>1, <2>2
<1>13. waits \in BOOLEAN
  BY <1>3, <1>10
<1>14. tr.hits \cup hits \subseteq 1..k
  <2>1. first..k \subseteq 1..k
    BY <1>4
  <2>2. QED
    BY <1>3, <1>6, <2>1
<1>15. IsViewed(t, m)
  BY <1>1, <1>2, <1>8, <1>11, <1>12, <1>13, <1>14, ZenonT(30) DEF IsViewed, TradeRecord
<1>16. m.state = "ACTIVE" /\ m.next = last + 1 /\ m.stop = stop
  BY <1>11 DEF IsViewed, TradeRecord
<1>17. KeepsBehind(t, tr, m)
  <2>1. CASE hits = {}
    BY <1>4, <1>8, <1>9, <1>16, <2>1, NullIsNone DEF KeepsBehind, IsBehind, HasEnded, Terminal
  <2>2. CASE hits # {}
    BY <1>8, <1>16, <2>2 DEF KeepsBehind, IsBehind
  <2>3. QED
    BY <2>1, <2>2
<1>18. QED
  BY <1>15, <1>16, <1>17

LEMMA AttemptBegins ==
    ASSUME NEW t \in ViewedTrades, NEW tr, IsViewed(t, tr), tr.state = "ACTIVE",
           NEW m, m = BeginExitAttempt(tr)
    PROVE  IsViewed(t, m) /\ m.state = "ACTIVE" /\ KeepsBehind(t, tr, m)
<1>1. m = [tr EXCEPT !.exit = "SUBMITTED"]
  BY DEF BeginExitAttempt
<1>2. IsViewed(t, m) /\ m.state = "ACTIVE" /\ m.next = tr.next /\ m.stop = tr.stop
  BY <1>1 DEF IsViewed, TradeRecord, Lifecycle
<1>3. QED
  BY <1>2, NullIsNone DEF KeepsBehind, IsBehind, HasEnded, Terminal

LEMMA AttemptFails ==
    ASSUME NEW t \in ViewedTrades, NEW tr, IsViewed(t, tr), tr.exit = "SUBMITTED",
           NEW m, m = MarkExitAttemptFailed(tr).trade
    PROVE  IsViewed(t, m) /\ m.state = "ACTIVE" /\ KeepsBehind(t, tr, m)
<1>1. m = [tr EXCEPT !.exit = "none"]
  BY DEF MarkExitAttemptFailed, ExitEnds, CanAdvance, LifecycleTable, Done
<1>2. tr.state = "ACTIVE"
  BY DEF IsViewed
<1>3. IsViewed(t, m) /\ m.state = "ACTIVE" /\ m.next = tr.next /\ m.stop = tr.stop
  BY <1>1, <1>2 DEF IsViewed, TradeRecord, Lifecycle
<1>4. QED
  BY <1>2, <1>3, NullIsNone DEF KeepsBehind, IsBehind, HasEnded, Terminal

LEMMA PositionCloses ==
    ASSUME NEW t \in ViewedTrades, NEW tr, IsViewed(t, tr), tr.exit = "SUBMITTED",
           NEW price,
           NEW m, m = ApplyExitOrderResponse(tr, [status |-> "FILLED", price |-> price,
                                                  quantity |-> OpenQuantity(tr)]).trade
    PROVE  IsViewed(t, m) /\ m.state = "COMPLETED"
<1>1. PICK answer : answer = [status |-> "FILLED", price |-> price, quantity |-> OpenQuantity(tr)]
  OBVIOUS
<1>2. tr.state = "ACTIVE" /\ tr.filled \in Nat /\ tr.exited \in Nat
  BY DEF IsViewed, TradeRecord
<1>3. answer.status = "FILLED" /\ answer.quantity = tr.filled - tr.exited
  BY <1>1 DEF OpenQuantity
<1>4. PICK sold : sold = [tr EXCEPT !.exit = "FILLED", !.exited = tr.exited + answer.quantity]
  OBVIOUS
<1>5. PICK no : no = FALSE
  OBVIOUS
<1>6. PICK flat : flat = [sold EXCEPT !.awaiting = FALSE]
  OBVIOUS
<1>7. PICK done : done = [flat EXCEPT !.exit = "COMPLETED"]
  OBVIOUS
<1>8. PICK over : over = [done EXCEPT !.state = "COMPLETED"]
  OBVIOUS
<1>9. OpenQuantity(sold) = 0
  BY <1>2, <1>3, <1>4 DEF OpenQuantity, IsViewed, TradeRecord
<1>10. done.state = "ACTIVE"
  BY <1>2, <1>4, <1>6, <1>7 DEF IsViewed, TradeRecord
<1>11. /\ CanAdvance("SUBMITTED", "FILLED") /\ CanAdvance("FILLED", "COMPLETED")
       /\ CanTransition("ACTIVE", "COMPLETED")
  BY DEF CanAdvance, LifecycleTable, CanTransition, StateTable
<1>12. ExitFills(tr, answer) = TransitionTo(done, "COMPLETED")
  BY <1>3, <1>4, <1>6, <1>7, <1>9, <1>11 DEF ExitFills
<1>13. m = over
  BY <1>1, <1>3, <1>8, <1>10, <1>11, <1>12 DEF ApplyExitOrderResponse, TransitionTo, Done
<1>14. over = [mode |-> tr.mode, state |-> "COMPLETED", ordered |-> tr.ordered,
               entry |-> tr.entry, exit |-> "COMPLETED", fillPrice |-> tr.fillPrice,
               filled |-> tr.filled, exited |-> tr.exited + answer.quantity, stop |-> tr.stop,
               next |-> tr.next, awaiting |-> no, hits |-> tr.hits]
  BY <1>4, <1>5, <1>6, <1>7, <1>8 DEF IsViewed, TradeRecord
<1>15. tr.exited + answer.quantity \in Nat
  BY <1>2, <1>3
<1>16. no \in BOOLEAN
  BY <1>5
<1>17. QED
  BY <1>13, <1>14, <1>15, <1>16 DEF IsViewed, TradeRecord, TradeState, Terminal, Live, Lifecycle

(* What TrailingManager proposes: a step is never beyond the stop proposed   *)
LEMMA LockHolds ==
    ASSUME NEW config, config \in [strategy : Strategies, size : Int \cup {Null}, lock : Int \cup {Null}],
           NEW c, c.direction \in {"LONG", "SHORT"}, c.entry \in Int,
           NEW stop \in Int, NEW held, held = ApplyProfitLock(config, c, stop)
    PROVE  held \in Int /\ ~Better(c.direction, stop, held)
<1>1. PICK floor : floor = c.entry + Sign(c.direction) * config.lock
  OBVIOUS
<1>2. CASE config.lock = Null \/ config.lock <= 0 \/ Better(c.direction, stop, floor)
  <2>1. held = stop
    BY <1>1, <1>2 DEF ApplyProfitLock
  <2>2. QED
    BY <2>1 DEF Better
<1>3. CASE ~(config.lock = Null \/ config.lock <= 0 \/ Better(c.direction, stop, floor))
  <2>1. held = floor
    BY <1>1, <1>3 DEF ApplyProfitLock
  <2>2. config.lock \in Int
    BY <1>3
  <2>3. floor \in Int
    BY <1>1, <2>2 DEF Sign
  <2>4. QED
    BY <1>3, <2>1, <2>3
<1>4. QED
  BY <1>2, <1>3

IsProposal(direction, p) ==
    /\ p = [stop |-> p.stop, step |-> p.step]
    /\ p.step \in Int \cup {Null}
    /\ p # NoProposal => p.stop \in Int
    /\ p.step # Null => p.stop \in Int /\ ~Better(direction, p.step, p.stop)

LEMMA RawIs ==
    ASSUME NEW config, config \in [strategy : Strategies, size : Int \cup {Null}, lock : Int \cup {Null}],
           NEW c, c.direction \in {"LONG", "SHORT"}, c.entry \in Int, c.mark \in Int,
           c.step \in Int \cup {Null}, NEW raw, raw = ComputeRaw(config, c)
    PROVE  /\ raw = [stop |-> raw.stop, step |-> raw.step]
           /\ raw = NoProposal \/ (raw.stop \in Int /\ raw.step \in {Null, raw.stop})
<1>1. CASE raw = NoProposal
  BY <1>1 DEF NoProposal, Proposal
<1>2. CASE raw # NoProposal
  <2>1. CASE config.strategy = "BREAK_EVEN"
    <3>1. raw = Proposal(c.entry, Null)
      BY <1>2, <2>1 DEF ComputeRaw, BreakEven
    <3>2. QED
      BY <3>1 DEF Proposal
  <2>2. CASE config.strategy # "BREAK_EVEN"
    <3>1. /\ config.strategy \in {"FIXED_POINTS", "PERCENTAGE", "STEP"}
          /\ config.size # Null /\ ~(config.size <= 0)
      BY <1>2, <2>2 DEF ComputeRaw, Strategies
    <3>2. PICK size \in Int : size = config.size /\ size > 0
      BY <3>1
    <3>3. PICK sign \in Int : sign = Sign(c.direction)
      BY DEF Sign
    <3>4. PICK mark \in Int : mark = c.mark
      OBVIOUS
    <3>5. CASE config.strategy = "FIXED_POINTS"
      <4>1. raw = Proposal(mark - sign * size, Null)
        BY <3>1, <3>2, <3>3, <3>4, <3>5 DEF ComputeRaw, FixedPoints
      <4>2. mark - sign * size \in Int
        OBVIOUS
      <4>3. QED
        BY <4>1, <4>2 DEF Proposal
    <3>6. CASE config.strategy = "PERCENTAGE"
      <4>1. raw = Proposal(mark - sign * ((mark * size) \div 100), Null)
        BY <3>1, <3>2, <3>3, <3>4, <3>6 DEF ComputeRaw, Percentage
      <4>2. mark - sign * ((mark * size) \div 100) \in Int
        OBVIOUS
      <4>3. QED
        BY <4>1, <4>2 DEF Proposal
    <3>7. CASE config.strategy = "STEP"
      <4>1. PICK base \in Int : base = IF c.step = Null THEN c.entry ELSE c.step
        OBVIOUS
      <4>2. PICK move \in Int : move = sign * (mark - base)
        OBVIOUS
      <4>3. PICK next \in Int : next = base + sign * (move \div size) * size
        <5>1. base + sign * (move \div size) * size \in Int
          BY <3>2
        <5>2. QED
          BY <5>1
      <4>4. raw = Step(config, c)
        BY <3>1, <3>7 DEF ComputeRaw
      <4>5. raw = Proposal(next, next)
        BY <1>2, <3>2, <3>3, <3>4, <4>1, <4>2, <4>3, <4>4 DEF Step
      <4>6. QED
        BY <4>5 DEF Proposal
    <3>8. QED
      BY <3>1, <3>5, <3>6, <3>7
  <2>3. QED
    BY <2>1, <2>2
<1>3. QED
  BY <1>1, <1>2

LEMMA ProposedIs ==
    ASSUME NEW tick, IsTick(tick), NEW ext, IsRow(ext), NEW p, p = Proposed(tick, ext)
    PROVE  IsProposal(Definitions[tick.trade].direction, p)
<1>1. PICK t \in ViewedTrades : t = tick.trade
  BY DEF IsTick
<1>2. PICK direction \in {"LONG", "SHORT"} : direction = Definitions[t].direction
  BY DefinitionsAre
<1>3. CASE p = NoProposal
  <2>1. p = [stop |-> Null, step |-> Null]
    BY <1>3 DEF NoProposal, Proposal
  <2>2. QED
    BY <1>3, <2>1 DEF IsProposal
<1>4. CASE p # NoProposal
  <2>1. PICK config : config = ext.config
    OBVIOUS
  <2>2. PICK c : c = Context(tick, ext)
    OBVIOUS
  <2>3. ext.config # Null /\ p = Compute(config, c)
    BY <1>4, <2>1, <2>2 DEF Proposed
  <2>4. config \in [strategy : Strategies, size : Int \cup {Null}, lock : Int \cup {Null}]
    BY <2>1, <2>3 DEF IsRow
  <2>5. /\ c.direction = direction /\ c.direction \in {"LONG", "SHORT"} /\ c.mark \in Int
        /\ c.entry \in Int /\ c.step \in Int \cup {Null}
    <3>1. tick.snapshot.fillPrice \in Int /\ tick.price \in Int /\ ext.step \in Int \cup {Null}
      BY DEF IsTick, IsViewed, TradeRecord, IsRow
    <3>2. QED
      BY <1>1, <1>2, <2>2, <3>1 DEF Context
  <2>6. PICK raw : raw = ComputeRaw(config, c)
    OBVIOUS
  <2>7. /\ raw = [stop |-> raw.stop, step |-> raw.step]
        /\ raw = NoProposal \/ (raw.stop \in Int /\ raw.step \in {Null, raw.stop})
    BY <2>4, <2>5, <2>6, RawIs
  <2>8. raw # NoProposal
    BY <1>4, <2>3, <2>6 DEF Compute
  <2>9. raw.stop \in Int /\ raw.step \in {Null, raw.stop}
    BY <2>7, <2>8
  <2>10. PICK held : held = ApplyProfitLock(config, c, raw.stop)
    OBVIOUS
  <2>11. held \in Int /\ ~Better(direction, raw.stop, held)
    BY <2>4, <2>5, <2>9, <2>10, LockHolds
  <2>12. p = [raw EXCEPT !.stop = held]
    BY <2>3, <2>6, <2>8, <2>10 DEF Compute
  <2>13. p = [stop |-> held, step |-> raw.step]
    BY <2>7, <2>12
  <2>14. p.stop = held /\ p.step = raw.step /\ p = [stop |-> p.stop, step |-> p.step]
    BY <2>13
  <2>15. p.step = Null \/ ~Better(direction, p.step, p.stop)
    BY <2>9, <2>11, <2>14
  <2>16. p.step \in Int \cup {Null}
    BY <2>9, <2>14
  <2>17. QED
    BY <1>1, <1>2, <2>11, <2>14, <2>15, <2>16 DEF IsProposal
<1>5. QED
  BY <1>3, <1>4

(* A stop moves only to a better one, and only of a trade that is ACTIVE     *)
LEMMA StopMoves ==
    ASSUME NEW t \in ViewedTrades, NEW tr, IsViewed(t, tr), NEW stop \in Int,
           NEW m, m = MoveStopLoss(Definitions[t], tr, stop)
    PROVE  /\ IsViewed(t, m) /\ m.state = tr.state /\ KeepsBehind(t, tr, m)
           /\ tr.state # "ACTIVE" => m = tr
           /\ tr.state = "ACTIVE" => ~Better(Definitions[t].direction, stop, m.stop)
<1>1. PICK direction \in {"LONG", "SHORT"} : direction = Definitions[t].direction
  BY DefinitionsAre
<1>2. PICK old \in Int : old = tr.stop
  BY DEF IsViewed, TradeRecord
<1>3. CASE tr.state = "ACTIVE" /\ Better(direction, stop, old)
  <2>1. m = [tr EXCEPT !.stop = stop]
    BY <1>1, <1>2, <1>3 DEF MoveStopLoss
  <2>2. IsViewed(t, m) /\ m.state = tr.state /\ m.stop = stop /\ m.next = tr.next
    BY <2>1 DEF IsViewed, TradeRecord
  <2>3. \A s \in Int : ~Better(direction, s, old) => ~Better(direction, s, stop)
    BY <1>3 DEF Better
  <2>4. KeepsBehind(t, tr, m)
    <3>1. SUFFICES ASSUME NEW s \in Int, IsBehind(t, tr, s) PROVE IsBehind(t, m, s)
      BY DEF KeepsBehind
    <3>2. s # Null /\ ~HasEnded(tr)
      BY <1>3, NullIsNone DEF HasEnded, Terminal
    <3>3. tr.next > 1 \/ ~Better(direction, s, old)
      BY <1>1, <1>2, <3>1, <3>2 DEF IsBehind
    <3>4. QED
      BY <1>1, <1>3, <2>2, <2>3, <3>3 DEF IsBehind
  <2>5. ~Better(direction, stop, stop)
    BY DEF Better
  <2>6. QED
    BY <1>1, <1>3, <2>2, <2>4, <2>5
<1>4. CASE ~(tr.state = "ACTIVE" /\ Better(direction, stop, old))
  <2>1. m = tr
    BY <1>1, <1>2, <1>4 DEF MoveStopLoss
  <2>2. QED
    BY <1>1, <1>2, <1>4, <2>1 DEF KeepsBehind
<1>5. QED
  BY <1>3, <1>4

(* What evaluating a tick does to the trade, and the step that is to be saved *)
Follows(t, tr, m) == KeepsBehind(t, tr, m) /\ (HasBegun(tr) => HasBegun(m))

Stays(tr, m) == m = tr \/ (~HasEnded(tr) /\ ~HasEnded(m))

IsNewPatch(p, tr) ==
    IsPatch(p) /\ p.row = Null /\ (p.field = "step" => IsBehind(p.trade, tr, p.value))

LEMMA StaysPut == ASSUME NEW t, NEW tr PROVE Follows(t, tr, tr) /\ Stays(tr, tr)
BY DEF Follows, KeepsBehind, Stays

LEMMA GoesOn ==
    ASSUME NEW t \in ViewedTrades, NEW tr, NEW m, IsViewed(t, tr), IsViewed(t, m),
           tr.state = "ACTIVE", m.state = "ACTIVE", KeepsBehind(t, tr, m)
    PROVE  Follows(t, tr, m) /\ Stays(tr, m)
BY NullIsNone DEF Follows, Stays, HasBegun, HasEnded, Terminal

LEMMA PatchIs ==
    ASSUME NEW by, NEW t \in ViewedTrades, NEW field \in {"reason", "config", "step"}, NEW value,
           field = "reason" => value \in ExitReasons,
           field = "config" => value = Definitions[t].trailing,
           field = "step" => value \in Int,
           NEW p, p = Patch(by, t, field, value)
    PROVE  IsPatch(p) /\ p.row = Null /\ p.trade = t /\ p.field = field /\ p.value = value
<1>1. p = [by |-> by, trade |-> t, field |-> field, value |-> value, row |-> Null]
  BY DEF Patch
<1>2. QED
  BY <1>1 DEF IsPatch

LEMMA TrailMoves ==
    ASSUME NEW tick, IsTick(tick), NEW ext, IsRow(ext), NEW tr, IsViewed(tick.trade, tr),
           HasBegun(tr), NEW m, m = Moved(tick, ext, tr)
    PROVE  /\ IsViewed(tick.trade, m) /\ m.state = tr.state
           /\ tr.state # "ACTIVE" => m = tr
           /\ Follows(tick.trade, tr, m) /\ Stays(tr, m)
           /\ \A p \in StepPatch(tick, ext, m) : IsNewPatch(p, m) /\ p.trade = tick.trade
<1>1. PICK t \in ViewedTrades : t = tick.trade
  BY DEF IsTick
<1>2. PICK direction \in {"LONG", "SHORT"} : direction = Definitions[t].direction
  BY DefinitionsAre
<1>3. PICK q : q = Proposed(tick, ext)
  OBVIOUS
<1>4. IsProposal(direction, q)
  BY <1>1, <1>2, <1>3, ProposedIs
<1>5. CASE q = NoProposal
  <2>1. m = tr
    BY <1>3, <1>5 DEF Moved
  <2>2. StepPatch(tick, ext, m) = {}
    BY <1>3, <1>5 DEF StepPatch, NoProposal, Proposal
  <2>3. QED
    BY <1>1, <2>1, <2>2, StaysPut
<1>6. CASE q # NoProposal
  <2>1. PICK stop \in Int : stop = q.stop
    BY <1>4, <1>6 DEF IsProposal
  <2>2. m = MoveStopLoss(Definitions[t], tr, stop)
    BY <1>1, <1>3, <1>6, <2>1 DEF Moved
  <2>3. /\ IsViewed(t, m) /\ m.state = tr.state /\ KeepsBehind(t, tr, m)
        /\ tr.state # "ACTIVE" => m = tr
        /\ tr.state = "ACTIVE" => ~Better(direction, stop, m.stop)
    BY <1>1, <1>2, <2>2, StopMoves
  <2>4. Follows(t, tr, m) /\ Stays(tr, m)
    <3>1. CASE tr.state = "ACTIVE"
      BY <1>1, <2>3, <3>1, GoesOn
    <3>2. CASE tr.state # "ACTIVE"
      BY <2>3, <3>2, StaysPut
    <3>3. QED
      BY <3>1, <3>2
  <2>5. ASSUME NEW p \in StepPatch(tick, ext, m) PROVE IsNewPatch(p, m) /\ p.trade = t
    <3>1. q.step # Null /\ p = Patch("step", t, "step", q.step)
      BY <1>1, <1>3, <2>5 DEF StepPatch
    <3>2. PICK step \in Int : step = q.step /\ ~Better(direction, step, stop)
      BY <1>4, <2>1, <3>1 DEF IsProposal
    <3>3. IsPatch(p) /\ p.row = Null /\ p.trade = t /\ p.value = step
      BY <3>1, <3>2, PatchIs
    <3>4. IsBehind(t, m, step)
      <4>1. CASE m.state = "ACTIVE"
        <5>1. PICK present \in Int : present = m.stop
          BY <2>3 DEF IsViewed, TradeRecord
        <5>2. ~Better(direction, stop, present)
          BY <2>3, <4>1, <5>1
        <5>3. ~Better(direction, step, present)
          BY <3>2, <5>2 DEF Better
        <5>4. QED
          BY <1>2, <4>1, <5>1, <5>3 DEF IsBehind
      <4>2. CASE m.state # "ACTIVE"
        <5>1. tr # Null /\ m.state \in {"COMPLETED", "CANCELLED"}
          BY <1>1, <2>3, <4>2, NullIsNone DEF HasBegun, IsViewed
        <5>2. QED
          BY <5>1 DEF IsBehind, HasEnded, Terminal
      <4>3. QED
        BY <4>1, <4>2
    <3>5. QED
      BY <3>3, <3>4 DEF IsNewPatch
  <2>6. QED
    BY <1>1, <2>3, <2>4, <2>5
<1>7. QED
  BY <1>5, <1>6

-----------------------------------------------------------------------------
(* What a step has to keep for each part of the invariant to be kept         *)
Replaced(t, m) == engine' = [engine EXCEPT ![t] = m]

CacheDrops ==
    /\ cache' = [t \in ViewedTrades |-> cache'[t]]
    /\ \A t \in ViewedTrades : cache'[t] \in {Null, cache[t]}

RowsKnown ==
    /\ extension' = extension
    /\ known' = [t \in ViewedTrades |-> known'[t]]
    /\ \A t \in ViewedTrades : known'[t] \in {Null, known[t], extension[t]}

LEMMA EngineTurns ==
    ASSUME EngineInv, NEW t \in ViewedTrades, NEW m, m = Null \/ IsViewed(t, m), Replaced(t, m)
    PROVE  EngineInv' /\ engine'[t] = m /\ \A u \in ViewedTrades \ {t} : engine'[u] = engine[u]
<1>1. engine' = [u \in ViewedTrades |-> IF u = t THEN m ELSE engine[u]]
  BY DEF EngineInv, Replaced
<1>2. QED
  BY <1>1 DEF EngineInv

LEMMA ArchiveStays ==
    ASSUME EngineInv, ArchiveInv, NEW t \in ViewedTrades, NEW m, Replaced(t, m),
           Stays(engine[t], m), UNCHANGED <<archive, history, ended>>
    PROVE  ArchiveInv'
<1>1. engine' = [u \in ViewedTrades |-> IF u = t THEN m ELSE engine[u]]
  BY DEF EngineInv, Replaced
<1>2. \A u \in ViewedTrades : Stays(engine[u], engine'[u])
  BY <1>1 DEF Stays
<1>3. \A u \in ViewedTrades :
        IsKept(u, engine[u], ended[u], archive[u], history[u])
          => IsKept(u, engine'[u], ended[u], archive[u], history[u])
  BY <1>2 DEF Stays, IsKept
<1>4. QED
  BY <1>3 DEF ArchiveInv

LEMMA ReadsStay ==
    ASSUME ReadInv, CacheDrops, UNCHANGED <<reader, ended>>
    PROVE  ReadInv'
BY DEF ReadInv, CacheDrops

LEMMA Invalidated ==
    ASSUME ReadInv, StepInv, NEW t \in ViewedTrades, Invalidate(t)
    PROVE  CacheDrops /\ (extension' = extension => RowsKnown)
BY DEF ReadInv, StepInv, Invalidate, CacheDrops, RowsKnown

LEMMA Published ==
    ASSUME ReadInv, StepInv, NEW t \in ViewedTrades, NEW stops, Publish(t, stops)
    PROVE  CacheDrops /\ (extension' = extension => RowsKnown)
BY Invalidated DEF Publish

LEMMA NothingDropped ==
    ASSUME ReadInv, StepInv, UNCHANGED <<cache, known>>
    PROVE  CacheDrops /\ (extension' = extension => RowsKnown)
BY DEF ReadInv, StepInv, CacheDrops, RowsKnown

LEMMA StepsFollow ==
    ASSUME StepInv, RowsKnown,
           \A t \in ViewedTrades : Follows(t, engine[t], engine'[t]),
           \A k \in ticks' : k \in ticks \/ (IsTick(k) /\ HasBegun(engine'[k.trade])),
           \A p \in patches' : p \in patches \/ (IsPatch(p) /\ IsNewPatch(p, engine'[p.trade]))
    PROVE  StepInv'
<1>1. \A t \in ViewedTrades : \A s \in Int \cup {Null} :
        IsBehind(t, engine[t], s) => IsBehind(t, engine'[t], s)
  BY DEF Follows, KeepsBehind, IsBehind
<1>2. ASSUME NEW t \in ViewedTrades
      PROVE  /\ IsRow(extension'[t]) /\ IsBehind(t, engine'[t], extension'[t].step)
             /\ known'[t] = Null \/ IsRow(known'[t])
  <2>1. /\ IsRow(extension[t]) /\ IsBehind(t, engine[t], extension[t].step)
        /\ known[t] = Null \/ IsRow(known[t])
    BY DEF StepInv
  <2>2. extension[t].step \in Int \cup {Null}
    BY <2>1 DEF IsRow
  <2>3. QED
    BY <1>1, <2>1, <2>2 DEF RowsKnown
<1>3. ASSUME NEW k \in ticks' PROVE IsTick(k) /\ HasBegun(engine'[k.trade])
  <2>1. CASE k \in ticks
    BY <2>1 DEF StepInv, IsTick, Follows
  <2>2. QED
    BY <2>1
<1>4. ASSUME NEW p \in patches'
      PROVE  /\ IsPatch(p)
             /\ p.field = "step" => IsBehind(p.trade, engine'[p.trade], p.value)
             /\ p.row # Null => IsBehind(p.trade, engine'[p.trade], p.row.step)
  <2>1. CASE p \in patches
    <3>1. /\ IsPatch(p)
          /\ p.field = "step" => IsBehind(p.trade, engine[p.trade], p.value)
          /\ p.row # Null => IsBehind(p.trade, engine[p.trade], p.row.step)
      BY <2>1 DEF StepInv
    <3>2. /\ p.trade \in ViewedTrades /\ p.field = "step" => p.value \in Int
          /\ p.row # Null => p.row.step \in Int \cup {Null}
      BY <3>1 DEF IsPatch, IsRow
    <3>3. QED
      BY <1>1, <3>1, <3>2 DEF IsPatch
  <2>2. CASE p \notin patches
    BY <2>2 DEF IsNewPatch
  <2>3. QED
    BY <2>1, <2>2
<1>5. QED
  BY <1>2, <1>3, <1>4 DEF StepInv, RowsKnown

-----------------------------------------------------------------------------
(* The views start in the invariant, and every step of theirs keeps it       *)
LEMMA ViewsStart == InitViews => ViewsInv
<1> SUFFICES ASSUME InitViews PROVE ViewsInv
  OBVIOUS
<1>1. EngineInv
  BY WaitingIs DEF InitViews, EngineInv
<1>2. \A t \in ViewedTrades : engine[t] # Null /\ ~HasEnded(engine[t])
  BY WaitingIs, NullIsNone DEF InitViews, HasEnded, Terminal
<1>3. ArchiveInv
  BY <1>2 DEF InitViews, ArchiveInv, IsKept
<1>4. ReadInv
  BY DEF InitViews, ReadInv, Quiet
<1>5. IsRow(DefaultExtension) /\ DefaultExtension.step = Null
  BY DEF DefaultExtension, IsRow
<1>6. StepInv
  BY <1>5 DEF InitViews, StepInv, IsBehind
<1>7. QED
  BY <1>1, <1>3, <1>4, <1>6 DEF ViewsInv

LEMMA FillKeeps ==
    ASSUME ViewsInv, NEW t \in ViewedTrades, EntryFilled(t) PROVE ViewsInv'
<1>1. IsViewed(t, engine[t]) /\ engine[t].state = "WAITING_ENTRY"
  BY DEF ViewsInv, EngineInv, EntryFilled, Held
<1>2. PICK m : /\ Replaced(t, m) /\ IsViewed(t, m) /\ m.state = "ACTIVE"
  BY <1>1, FilledIs DEF EntryFilled, Replaced
<1>3. EngineInv' /\ engine'[t] = m /\ \A u \in ViewedTrades \ {t} : engine'[u] = engine[u]
  BY <1>2, EngineTurns DEF ViewsInv
<1>4. Stays(engine[t], m)
  BY <1>1, <1>2, NullIsNone DEF Stays, HasEnded, Terminal
<1>5. CacheDrops /\ RowsKnown
  BY Invalidated DEF ViewsInv, EntryFilled
<1>6. ArchiveInv'
  BY <1>2, <1>4, ArchiveStays DEF ViewsInv, EntryFilled
<1>7. ReadInv'
  BY <1>5, ReadsStay DEF ViewsInv, EntryFilled
<1>8. Follows(t, engine[t], m)
  <2>1. \A s \in Int : ~IsBehind(t, engine[t], s)
    BY <1>1, NullIsNone DEF IsBehind, HasEnded, Terminal
  <2>2. HasBegun(m)
    BY <1>2 DEF HasBegun
  <2>3. QED
    BY <2>1, <2>2 DEF Follows, KeepsBehind
<1>9. \A u \in ViewedTrades : Follows(u, engine[u], engine'[u])
  BY <1>3, <1>8, StaysPut
<1>10. StepInv'
  BY <1>5, <1>9, StepsFollow DEF ViewsInv, EntryFilled
<1>11. QED
  BY <1>3, <1>6, <1>7, <1>10 DEF ViewsInv

(* A trade that ends is on its way to the archive with the state it ended in *)
LEMMA EndsOnce ==
    ASSUME EngineInv, ArchiveInv, ReadInv, NEW t \in ViewedTrades, NEW m,
           Replaced(t, m), ~HasEnded(engine[t]), IsViewed(t, m), m.state \in Terminal,
           archive' = [archive EXCEPT ![t] = m], ended' = [ended EXCEPT ![t].state = m.state],
           UNCHANGED <<history, reader>>, CacheDrops
    PROVE  ArchiveInv' /\ ReadInv'
<1>1. engine' = [u \in ViewedTrades |-> IF u = t THEN m ELSE engine[u]]
  BY DEF EngineInv, Replaced
<1>2. /\ archive' = [u \in ViewedTrades |-> IF u = t THEN m ELSE archive[u]]
      /\ history' = history
  BY DEF ArchiveInv
<1>3. PICK over : over = [ended[t] EXCEPT !.state = m.state]
  OBVIOUS
<1>4. ended' = [u \in ViewedTrades |-> IF u = t THEN over ELSE ended[u]]
  BY <1>3 DEF ArchiveInv
<1>5. /\ ended[t].state = Null /\ over = [state |-> m.state, lost |-> ended[t].lost]
  BY <1>3 DEF ArchiveInv, IsKept
<1>6. over.state = m.state /\ m # Null /\ HasEnded(m)
  BY <1>5, NullIsNone DEF HasEnded
<1>7. history[t] # Null => history[t].status \notin Terminal
  BY <1>5, NullIsNone DEF ArchiveInv, IsKept
<1>8. IsKept(t, m, over, m, history[t])
  BY <1>5, <1>6, <1>7 DEF IsKept
<1>9. ArchiveInv'
  BY <1>1, <1>2, <1>4, <1>8 DEF ArchiveInv
<1>10. \A u \in ViewedTrades : \A state : SaysHow(state, ended[u]) => SaysHow(state, ended'[u])
  BY <1>4, <1>5, NullIsNone DEF SaysHow
<1>11. ReadInv'
  BY <1>10 DEF ReadInv, CacheDrops
<1>12. QED
  BY <1>9, <1>11

LEMMA CancelKeeps ==
    ASSUME ViewsInv, NEW t \in ViewedTrades, CancelTrade(t) PROVE ViewsInv'
<1>1. IsViewed(t, engine[t]) /\ engine[t].state = "WAITING_ENTRY"
  BY DEF ViewsInv, EngineInv, CancelTrade, Held
<1>2. PICK m : m = Cancel(engine[t]).trade
  OBVIOUS
<1>3. Replaced(t, m) /\ IsViewed(t, m) /\ m.state = "CANCELLED"
  BY <1>1, <1>2, CancelledIs DEF CancelTrade, Replaced
<1>4. EngineInv' /\ engine'[t] = m /\ \A u \in ViewedTrades \ {t} : engine'[u] = engine[u]
  BY <1>3, EngineTurns DEF ViewsInv
<1>5. CacheDrops /\ RowsKnown
  BY Invalidated DEF ViewsInv, CancelTrade
<1>6. ~HasEnded(engine[t])
  BY <1>1, NullIsNone DEF HasEnded, Terminal
<1>7. m.state \in Terminal
  BY <1>3 DEF Terminal
<1>8. ArchiveInv' /\ ReadInv'
  BY <1>3, <1>4, <1>5, <1>6, <1>7, EndsOnce DEF ViewsInv, CancelTrade, Ends
<1>9. Follows(t, engine[t], m)
  <2>1. HasEnded(m) /\ HasBegun(m)
    BY <1>3, <1>7 DEF HasBegun, HasEnded
  <2>2. QED
    BY <2>1 DEF Follows, KeepsBehind, IsBehind
<1>10. \A u \in ViewedTrades : Follows(u, engine[u], engine'[u])
  BY <1>4, <1>9, StaysPut
<1>11. StepInv'
  BY <1>5, <1>10, StepsFollow DEF ViewsInv, CancelTrade
<1>12. QED
  BY <1>4, <1>8, <1>11 DEF ViewsInv

(* The trades and their archive stay as they are *)
LEMMA QuietKeeps ==
    ASSUME ViewsInv, UNCHANGED <<engine, archive, history, ended, reader>>, CacheDrops
    PROVE  EngineInv' /\ ArchiveInv' /\ ReadInv'
           /\ \A t \in ViewedTrades : Follows(t, engine[t], engine'[t])
<1>1. EngineInv' /\ ArchiveInv'
  BY DEF ViewsInv, EngineInv, ArchiveInv
<1>2. ReadInv'
  BY ReadsStay DEF ViewsInv
<1>3. QED
  BY <1>1, <1>2, StaysPut

LEMMA TrailingKeeps ==
    ASSUME ViewsInv, NEW t \in ViewedTrades, ApplyTrailing(t) PROVE ViewsInv'
<1>1. CacheDrops /\ RowsKnown
  BY NothingDropped DEF ViewsInv, ApplyTrailing
<1>2. /\ EngineInv' /\ ArchiveInv' /\ ReadInv'
      /\ \A u \in ViewedTrades : Follows(u, engine[u], engine'[u])
  BY <1>1, QuietKeeps DEF ApplyTrailing
<1>3. PICK p : p = Patch("owner", t, "config", Definitions[t].trailing)
  OBVIOUS
<1>4. IsPatch(p) /\ p.row = Null /\ p.field = "config"
  BY <1>3, PatchIs
<1>5. \A q \in patches' : q \in patches \/ (IsPatch(q) /\ IsNewPatch(q, engine'[q.trade]))
  BY <1>3, <1>4 DEF ApplyTrailing, IsNewPatch
<1>6. StepInv'
  BY <1>1, <1>2, <1>5, StepsFollow DEF ViewsInv, ApplyTrailing
<1>7. QED
  BY <1>2, <1>6 DEF ViewsInv

LEMMA RequestKeeps ==
    ASSUME ViewsInv, NEW t \in ViewedTrades, NEW reason \in AskedFor(t), RequestExit(t, reason)
    PROVE  ViewsInv'
<1>1. CacheDrops /\ RowsKnown
  BY Invalidated DEF ViewsInv, RequestExit
<1>2. /\ EngineInv' /\ ArchiveInv' /\ ReadInv'
      /\ \A u \in ViewedTrades : Follows(u, engine[u], engine'[u])
  BY <1>1, QuietKeeps DEF RequestExit
<1>3. PICK p : p = Patch("exit", t, "reason", reason)
  OBVIOUS
<1>4. reason \in ExitReasons
  BY TradeViewsAssumption DEF AskedFor, TradeViewsAssumption
<1>5. IsPatch(p) /\ p.row = Null /\ p.field = "reason"
  BY <1>3, <1>4, PatchIs
<1>6. \A q \in patches' : q \in patches \/ (IsPatch(q) /\ IsNewPatch(q, engine'[q.trade]))
  BY <1>3, <1>5 DEF RequestExit, IsNewPatch
<1>7. StepInv'
  BY <1>1, <1>2, <1>6, StepsFollow DEF ViewsInv, RequestExit
<1>8. QED
  BY <1>2, <1>7 DEF ViewsInv

LEMMA AttributedIs ==
    ASSUME NEW t \in ViewedTrades, NEW stops, NEW p \in Attributed(t, stops)
    PROVE  IsPatch(p) /\ p.row = Null /\ p.field = "reason" /\ \A tr : IsNewPatch(p, tr)
<1>1. p = Patch("stop", t, "reason", "STOPLOSS")
  BY DEF Attributed
<1>2. IsPatch(p) /\ p.row = Null /\ p.field = "reason"
  BY <1>1, PatchIs DEF ExitReasons
<1>3. QED
  BY <1>2 DEF IsNewPatch

LEMMA EvaluateKeeps ==
    ASSUME ViewsInv, NEW tick \in ticks, Evaluate(tick) PROVE ViewsInv'
<1>1. PICK t \in ViewedTrades : t = tick.trade
  BY DEF ViewsInv, StepInv, IsTick
<1>2. IsTick(tick) /\ HasBegun(engine[t]) /\ IsRow(extension[t])
  BY <1>1 DEF ViewsInv, StepInv
<1>3. engine[t] = Null \/ IsViewed(t, engine[t])
  BY DEF ViewsInv, EngineInv
<1>4. PICK m : m = IF engine[t] = Null THEN Null ELSE Moved(tick, extension[t], engine[t])
  OBVIOUS
<1>5. /\ Replaced(t, m) /\ ticks' = ticks \ {tick}
      /\ patches' = patches \cup (IF m # engine[t] THEN Attributed(t, queued) ELSE {})
                            \cup (IF m = Null THEN {} ELSE StepPatch(tick, extension[t], m))
      /\ IF m # engine[t] THEN Publish(t, queued)
         ELSE known' = [known EXCEPT ![t] = extension[t]] /\ UNCHANGED <<cache, queued>>
      /\ UNCHANGED <<extension, reader, archive, history, ended>>
  BY <1>1, <1>4 DEF Evaluate, Replaced
<1>6. /\ m = Null \/ IsViewed(t, m)
      /\ Follows(t, engine[t], m) /\ Stays(engine[t], m)
      /\ m # Null => \A p \in StepPatch(tick, extension[t], m) : IsNewPatch(p, m) /\ p.trade = t
  <2>1. CASE engine[t] = Null
    BY <1>4, <2>1, StaysPut
  <2>2. CASE engine[t] # Null
    <3>1. m = Moved(tick, extension[t], engine[t]) /\ IsViewed(t, engine[t])
      BY <1>3, <1>4, <2>2
    <3>2. QED
      BY <1>1, <1>2, <3>1, TrailMoves
  <2>3. QED
    BY <2>1, <2>2
<1>7. EngineInv' /\ engine'[t] = m /\ \A u \in ViewedTrades \ {t} : engine'[u] = engine[u]
  BY <1>5, <1>6, EngineTurns DEF ViewsInv
<1>8. ArchiveInv'
  BY <1>5, <1>6, ArchiveStays DEF ViewsInv
<1>9. CacheDrops /\ RowsKnown
  <2>1. CASE m # engine[t]
    BY <1>5, <2>1, Published DEF ViewsInv
  <2>2. CASE m = engine[t]
    BY <1>5, <2>2 DEF ViewsInv, ReadInv, StepInv, CacheDrops, RowsKnown
  <2>3. QED
    BY <2>1, <2>2
<1>10. ReadInv'
  BY <1>5, <1>9, ReadsStay DEF ViewsInv
<1>11. \A u \in ViewedTrades : Follows(u, engine[u], engine'[u])
  BY <1>6, <1>7, StaysPut
<1>12. \A p \in patches' : p \in patches \/ (IsPatch(p) /\ IsNewPatch(p, engine'[p.trade]))
  <2>1. SUFFICES ASSUME NEW p \in patches', p \notin patches
                 PROVE  IsNewPatch(p, engine'[p.trade])
    BY DEF IsNewPatch
  <2>2. CASE p \in Attributed(t, queued)
    BY <2>2, AttributedIs
  <2>3. CASE p \notin Attributed(t, queued)
    BY <1>5, <1>6, <1>7, <2>1, <2>3
  <2>4. QED
    BY <2>2, <2>3
<1>13. StepInv'
  BY <1>5, <1>9, <1>11, <1>12, StepsFollow DEF ViewsInv
<1>14. QED
  BY <1>7, <1>8, <1>10, <1>13 DEF ViewsInv

LEMMA PriceKeeps ==
    ASSUME ViewsInv, NEW t \in ViewedTrades, NEW p \in Prices, MarketPrice(t, p) PROVE ViewsInv'
<1>1. IsViewed(t, engine[t]) /\ engine[t].state = "ACTIVE" /\ p \in Int
  BY TradeViewsAssumption DEF ViewsInv, EngineInv, MarketPrice, Held, TradeViewsAssumption
<1>2. PICK tr : tr = Advanced(t, p)
  OBVIOUS
<1>3. IsViewed(t, tr) /\ tr.state = "ACTIVE" /\ KeepsBehind(t, engine[t], tr)
  <2>1. CASE engine[t].awaiting
    BY <1>1, <1>2, <2>1 DEF Advanced, KeepsBehind
  <2>2. CASE ~engine[t].awaiting
    BY <1>1, <1>2, <2>2, PriceMoves DEF Advanced
  <2>3. QED
    BY <2>1, <2>2
<1>4. PICK stops : stops = IF tr.awaiting /\ ~engine[t].awaiting THEN queued \cup {t} ELSE queued
  OBVIOUS
<1>5. PICK tick : tick = [trade |-> t, price |-> p, snapshot |-> tr]
  OBVIOUS
<1>6. IsTick(tick) /\ tick.trade = t
  BY <1>1, <1>3, <1>5 DEF IsTick
<1>7. PICK event : event = (~tr.awaiting /\ tr # engine[t])
  OBVIOUS
<1>8. PICK atHand : atHand = (known[t] # Null /\ ~event)
  OBVIOUS
<1>9. PICK moved : moved = IF atHand THEN Moved(tick, known[t], tr) ELSE tr
  OBVIOUS
<1>10. PICK m : m = IF moved.awaiting THEN BeginExitAttempt(moved) ELSE moved
  OBVIOUS
<1>11. /\ Replaced(t, m)
       /\ ticks' = IF atHand THEN ticks ELSE ticks \cup {tick}
       /\ patches' = patches \cup (IF moved # tr THEN Attributed(t, stops) ELSE {})
                             \cup (IF atHand THEN StepPatch(tick, known[t], moved) ELSE {})
       /\ IF event \/ moved # tr THEN Publish(t, stops)
          ELSE queued' = stops /\ UNCHANGED <<cache, known>>
       /\ UNCHANGED <<extension, reader, archive, history, ended>>
  BY <1>2, <1>4, <1>5, <1>7, <1>8, <1>9, <1>10 DEF MarketPrice, Replaced
<1>12. /\ IsViewed(t, moved) /\ moved.state = "ACTIVE" /\ KeepsBehind(t, tr, moved)
       /\ atHand => \A q \in StepPatch(tick, known[t], moved) : IsNewPatch(q, moved) /\ q.trade = t
  <2>1. CASE atHand
    <3>1. IsRow(known[t]) /\ HasBegun(tr) /\ moved = Moved(tick, known[t], tr)
      BY <1>3, <1>8, <1>9, <2>1 DEF ViewsInv, StepInv, HasBegun
    <3>2. QED
      BY <1>3, <1>6, <3>1, TrailMoves DEF Follows
  <2>2. CASE ~atHand
    BY <1>3, <1>9, <2>2 DEF KeepsBehind
  <2>3. QED
    BY <2>1, <2>2
<1>13. IsViewed(t, m) /\ m.state = "ACTIVE" /\ KeepsBehind(t, moved, m)
  <2>1. CASE moved.awaiting
    BY <1>10, <1>12, <2>1, AttemptBegins
  <2>2. CASE ~moved.awaiting
    BY <1>10, <1>12, <2>2 DEF KeepsBehind
  <2>3. QED
    BY <2>1, <2>2
<1>14. Follows(t, engine[t], m) /\ Stays(engine[t], m)
  <2>1. KeepsBehind(t, engine[t], m)
    BY <1>3, <1>12, <1>13 DEF KeepsBehind
  <2>2. QED
    BY <1>1, <1>13, <2>1, GoesOn
<1>15. EngineInv' /\ engine'[t] = m /\ \A u \in ViewedTrades \ {t} : engine'[u] = engine[u]
  BY <1>11, <1>13, EngineTurns DEF ViewsInv
<1>16. ArchiveInv'
  BY <1>11, <1>14, ArchiveStays DEF ViewsInv
<1>17. CacheDrops /\ RowsKnown
  <2>1. CASE event \/ moved # tr
    BY <1>11, <2>1, Published DEF ViewsInv
  <2>2. CASE ~(event \/ moved # tr)
    BY <1>11, <2>2, NothingDropped DEF ViewsInv
  <2>3. QED
    BY <2>1, <2>2
<1>18. ReadInv'
  BY <1>11, <1>17, ReadsStay DEF ViewsInv
<1>19. \A u \in ViewedTrades : Follows(u, engine[u], engine'[u])
  BY <1>14, <1>15, StaysPut
<1>20. \A q \in patches' : q \in patches \/ (IsPatch(q) /\ IsNewPatch(q, engine'[q.trade]))
  <2>1. SUFFICES ASSUME NEW q \in patches', q \notin patches
                 PROVE  IsNewPatch(q, engine'[q.trade])
    BY DEF IsNewPatch
  <2>2. CASE q \in Attributed(t, stops)
    BY <2>2, AttributedIs
  <2>3. CASE q \notin Attributed(t, stops)
    <3>1. atHand /\ q \in StepPatch(tick, known[t], moved)
      BY <1>11, <2>1, <2>3
    <3>2. IsNewPatch(q, moved) /\ q.trade = t
      BY <1>12, <3>1
    <3>3. IsNewPatch(q, m)
      BY <1>13, <3>2 DEF IsNewPatch, KeepsBehind, IsPatch
    <3>4. QED
      BY <1>15, <3>2, <3>3
  <2>4. QED
    BY <2>2, <2>3
<1>21. \A k \in ticks' : k \in ticks \/ (IsTick(k) /\ HasBegun(engine'[k.trade]))
  <2>1. HasBegun(m)
    BY <1>13 DEF HasBegun
  <2>2. QED
    BY <1>6, <1>11, <1>15, <2>1
<1>22. StepInv'
  BY <1>17, <1>19, <1>20, <1>21, StepsFollow DEF ViewsInv
<1>23. QED
  BY <1>15, <1>16, <1>18, <1>22 DEF ViewsInv

LEMMA ExitKeeps ==
    ASSUME ViewsInv, NEW t \in ViewedTrades, ExitAnswered(t) PROVE ViewsInv'
<1>1. IsViewed(t, engine[t]) /\ engine[t].exit = "SUBMITTED" /\ engine[t].state = "ACTIVE"
  BY DEF ViewsInv, EngineInv, ExitAnswered, Held, IsViewed
<1>2. ~HasEnded(engine[t])
  BY <1>1, NullIsNone DEF HasEnded, Terminal
<1>3. PICK sold : sold = ApplyExitOrderResponse(engine[t],
                           [status |-> "FILLED", price |-> engine[t].stop,
                            quantity |-> OpenQuantity(engine[t])]).trade
  OBVIOUS
<1>4. IsViewed(t, sold) /\ sold.state = "COMPLETED"
  BY <1>1, <1>3, PositionCloses
<1>5. PICK failed : failed = MarkExitAttemptFailed(engine[t]).trade
  OBVIOUS
<1>6. IsViewed(t, failed) /\ failed.state = "ACTIVE" /\ KeepsBehind(t, engine[t], failed)
  BY <1>1, <1>5, AttemptFails
<1>7. \/ /\ Replaced(t, sold) /\ Publish(t, queued)
         /\ archive' = [archive EXCEPT ![t] = sold]
         /\ ended' = [ended EXCEPT ![t].state = sold.state]
      \/ /\ Replaced(t, failed) /\ UNCHANGED <<archive, ended>>
         /\ IF t \in queued THEN Publish(t, queued) ELSE UNCHANGED <<cache, known, queued>>
  <2>1. CASE Replaced(t, sold) /\ Ends(t, engine'[t]) /\ Publish(t, queued)
    <3>1. engine'[t] = sold
      BY <2>1, <1>4, EngineTurns DEF ViewsInv
    <3>2. QED
      BY <2>1, <3>1 DEF Ends
  <2>2. CASE /\ Replaced(t, failed) /\ UNCHANGED <<archive, ended>>
             /\ IF t \in queued THEN Publish(t, queued) ELSE UNCHANGED <<cache, known, queued>>
    BY <2>2
  <2>3. QED
    BY <1>3, <1>5, <2>1, <2>2 DEF ExitAnswered, Replaced, ViewsInv, EngineInv
<1>8. /\ patches' = patches \cup Attributed(t, queued)
      /\ UNCHANGED <<extension, ticks, reader, history>>
  BY DEF ExitAnswered
<1>9. CacheDrops /\ RowsKnown
  <2>1. CASE Publish(t, queued)
    BY <1>8, <2>1, Published DEF ViewsInv
  <2>2. CASE UNCHANGED <<cache, known>>
    BY <1>8, <2>2, NothingDropped DEF ViewsInv
  <2>3. QED
    BY <1>7, <2>1, <2>2
<1>10. /\ EngineInv' /\ ArchiveInv' /\ ReadInv'
       /\ \A u \in ViewedTrades : Follows(u, engine[u], engine'[u])
  <2>1. CASE /\ Replaced(t, sold)
             /\ archive' = [archive EXCEPT ![t] = sold]
             /\ ended' = [ended EXCEPT ![t].state = sold.state]
    <3>1. EngineInv' /\ engine'[t] = sold /\ \A u \in ViewedTrades \ {t} : engine'[u] = engine[u]
      BY <1>4, <2>1, EngineTurns DEF ViewsInv
    <3>2. sold.state \in Terminal /\ HasEnded(sold) /\ HasBegun(sold)
      BY <1>4 DEF HasEnded, HasBegun, Terminal
    <3>3. ArchiveInv' /\ ReadInv'
      BY <1>2, <1>4, <1>8, <1>9, <2>1, <3>2, EndsOnce DEF ViewsInv
    <3>4. Follows(t, engine[t], sold)
      BY <3>2 DEF Follows, KeepsBehind, IsBehind
    <3>5. QED
      BY <3>1, <3>3, <3>4, StaysPut
  <2>2. CASE Replaced(t, failed) /\ UNCHANGED <<archive, ended>>
    <3>1. EngineInv' /\ engine'[t] = failed /\ \A u \in ViewedTrades \ {t} : engine'[u] = engine[u]
      BY <1>6, <2>2, EngineTurns DEF ViewsInv
    <3>2. Follows(t, engine[t], failed) /\ Stays(engine[t], failed)
      BY <1>1, <1>6, GoesOn
    <3>3. ArchiveInv'
      BY <1>8, <2>2, <3>2, ArchiveStays DEF ViewsInv
    <3>4. ReadInv'
      BY <1>8, <1>9, <2>2, ReadsStay DEF ViewsInv
    <3>5. QED
      BY <3>1, <3>2, <3>3, <3>4, StaysPut
  <2>3. QED
    BY <1>7, <2>1, <2>2
<1>11. \A p \in patches' : p \in patches \/ (IsPatch(p) /\ IsNewPatch(p, engine'[p.trade]))
  BY <1>8, AttributedIs
<1>12. StepInv'
  BY <1>8, <1>9, <1>10, <1>11, StepsFollow DEF ViewsInv
<1>13. QED
  BY <1>10, <1>12 DEF ViewsInv

(* The row that is saved is the row there was with the one field changed     *)
LEMMA RowMerges ==
    ASSUME NEW e, IsRow(e), NEW p, IsPatch(p), NEW m, m = [e EXCEPT ![p.field] = p.value]
    PROVE  IsRow(m) /\ m.step = IF p.field = "step" THEN p.value ELSE e.step
<1>1. p.trade \in ViewedTrades /\ p.field \in {"reason", "config", "step"}
  BY DEF IsPatch
<1>2. CASE p.field = "reason"
  <2>1. m = [reason |-> p.value, config |-> e.config, step |-> e.step]
    BY <1>2 DEF IsRow
  <2>2. QED
    BY <1>2, <2>1 DEF IsRow, IsPatch
<1>3. CASE p.field = "config"
  <2>1. m = [reason |-> e.reason, config |-> p.value, step |-> e.step]
    BY <1>3 DEF IsRow
  <2>2. p.value \in [strategy : Strategies, size : Int \cup {Null}, lock : Int \cup {Null}]
                      \cup {Null}
    BY <1>1, <1>3, TradeViewsAssumption DEF IsPatch, TradeViewsAssumption
  <2>3. QED
    BY <1>3, <2>1, <2>2 DEF IsRow
<1>4. CASE p.field = "step"
  <2>1. m = [reason |-> e.reason, config |-> e.config, step |-> p.value]
    BY <1>4 DEF IsRow
  <2>2. QED
    BY <1>4, <2>1 DEF IsRow, IsPatch
<1>5. QED
  BY <1>1, <1>2, <1>3, <1>4

LEMMA FoundKeeps ==
    ASSUME ViewsInv, NEW p \in patches, PatchFound(p) PROVE ViewsInv'
<1>1. CacheDrops /\ RowsKnown
  BY NothingDropped DEF ViewsInv, PatchFound
<1>2. /\ EngineInv' /\ ArchiveInv' /\ ReadInv'
      /\ \A u \in ViewedTrades : Follows(u, engine[u], engine'[u])
  BY <1>1, QuietKeeps DEF PatchFound
<1>3. PICK t \in ViewedTrades : t = p.trade
  BY DEF ViewsInv, StepInv, IsPatch
<1>4. /\ IsPatch(p) /\ IsRow(extension[t])
      /\ p.field = "step" => IsBehind(t, engine[t], p.value)
      /\ IsBehind(t, engine[t], extension[t].step)
  BY <1>3 DEF ViewsInv, StepInv
<1>5. PICK row : row = [extension[t] EXCEPT ![p.field] = p.value]
  OBVIOUS
<1>6. IsRow(row) /\ IsBehind(t, engine[t], row.step)
  BY <1>4, <1>5, RowMerges
<1>7. PICK q : q = [p EXCEPT !.row = row]
  OBVIOUS
<1>8. /\ IsPatch(q) /\ q.trade = t /\ q.field = p.field /\ q.value = p.value /\ q.row = row
  <2>1. q = [by |-> p.by, trade |-> t, field |-> p.field, value |-> p.value, row |-> row]
    BY <1>3, <1>4, <1>7 DEF IsPatch
  <2>2. QED
    BY <1>3, <1>4, <1>6, <2>1 DEF IsPatch
<1>9. patches' = (patches \ {p}) \cup {q}
  BY <1>3, <1>5, <1>7 DEF PatchFound
<1>10. UNCHANGED <<engine, extension, known, ticks>>
  BY DEF PatchFound
<1>11. \A a \in patches' :
         /\ IsPatch(a)
         /\ a.field = "step" => IsBehind(a.trade, engine[a.trade], a.value)
         /\ a.row # Null => IsBehind(a.trade, engine[a.trade], a.row.step)
  <2>1. SUFFICES ASSUME NEW a \in patches'
                 PROVE  /\ IsPatch(a)
                        /\ a.field = "step" => IsBehind(a.trade, engine[a.trade], a.value)
                        /\ a.row # Null => IsBehind(a.trade, engine[a.trade], a.row.step)
    OBVIOUS
  <2>2. CASE a = q
    BY <1>4, <1>6, <1>8, <2>2
  <2>3. CASE a # q
    BY <1>9, <2>1, <2>3 DEF ViewsInv, StepInv
  <2>4. QED
    BY <2>2, <2>3
<1>12. StepInv'
  BY <1>10, <1>11 DEF ViewsInv, StepInv
<1>13. QED
  BY <1>2, <1>12 DEF ViewsInv

LEMMA SavedKeeps ==
    ASSUME ViewsInv, NEW p \in patches, PatchSaved(p) PROVE ViewsInv'
<1>1. PICK t \in ViewedTrades : t = p.trade
  BY DEF ViewsInv, StepInv, IsPatch
<1>2. /\ p.row # Null /\ IsRow(p.row) /\ IsBehind(t, engine[t], p.row.step)
  BY <1>1 DEF ViewsInv, StepInv, IsPatch, PatchSaved
<1>3. PICK sends \in BOOLEAN :
        sends = (p.by = "exit" /\ engine[t] # Null /\ engine[t].state = "ACTIVE")
  OBVIOUS
<1>4. PICK m : m = IF sends THEN BeginExitAttempt(engine[t]) ELSE engine[t]
  OBVIOUS
<1>5. Replaced(t, m)
  <2>1. CASE sends
    BY <1>1, <1>3, <1>4, <2>1 DEF PatchSaved, Replaced
  <2>2. CASE ~sends
    BY <1>1, <1>3, <1>4, <2>2 DEF PatchSaved, Replaced, ViewsInv, EngineInv
  <2>3. QED
    BY <2>1, <2>2
<1>6. /\ m = Null \/ IsViewed(t, m)
      /\ Follows(t, engine[t], m) /\ Stays(engine[t], m)
  <2>1. engine[t] = Null \/ IsViewed(t, engine[t])
    BY DEF ViewsInv, EngineInv
  <2>2. CASE sends
    BY <1>3, <1>4, <2>1, <2>2, AttemptBegins, GoesOn
  <2>3. CASE ~sends
    BY <1>4, <2>1, <2>3, StaysPut
  <2>4. QED
    BY <2>2, <2>3
<1>7. EngineInv' /\ engine'[t] = m /\ \A u \in ViewedTrades \ {t} : engine'[u] = engine[u]
  BY <1>5, <1>6, EngineTurns DEF ViewsInv
<1>8. ArchiveInv'
  BY <1>5, <1>6, ArchiveStays DEF ViewsInv, PatchSaved
<1>9. CacheDrops /\ known' = [u \in ViewedTrades |-> known'[u]]
      /\ \A u \in ViewedTrades : known'[u] \in {Null, known[u]}
  BY <1>1 DEF PatchSaved, Invalidate, ViewsInv, ReadInv, StepInv, CacheDrops
<1>10. ReadInv'
  BY <1>9, ReadsStay DEF ViewsInv, PatchSaved
<1>11. \A u \in ViewedTrades : Follows(u, engine[u], engine'[u])
  BY <1>6, <1>7, StaysPut
<1>12. PICK row : row = p.row
  OBVIOUS
<1>13. /\ extension' = [u \in ViewedTrades |-> IF u = t THEN row ELSE extension[u]]
       /\ ticks' = ticks /\ patches' = patches \ {p}
  BY <1>1, <1>12 DEF PatchSaved, ViewsInv, StepInv
<1>14. \A u \in ViewedTrades : \A s \in Int \cup {Null} :
         IsBehind(u, engine[u], s) => IsBehind(u, engine'[u], s)
  BY <1>11 DEF Follows, KeepsBehind, IsBehind
<1>15. \A u \in ViewedTrades :
         /\ IsRow(extension'[u]) /\ IsBehind(u, engine'[u], extension'[u].step)
         /\ known'[u] = Null \/ IsRow(known'[u])
  <2>1. SUFFICES ASSUME NEW u \in ViewedTrades
                 PROVE  /\ IsRow(extension'[u]) /\ IsBehind(u, engine'[u], extension'[u].step)
                        /\ known'[u] = Null \/ IsRow(known'[u])
    OBVIOUS
  <2>2. IsRow(extension'[u]) /\ IsBehind(u, engine[u], extension'[u].step)
    BY <1>2, <1>12, <1>13 DEF ViewsInv, StepInv
  <2>3. extension'[u].step \in Int \cup {Null}
    BY <2>2 DEF IsRow
  <2>4. known'[u] = Null \/ IsRow(known'[u])
    BY <1>9 DEF ViewsInv, StepInv
  <2>5. QED
    BY <1>14, <2>2, <2>3, <2>4
<1>16. \A k \in ticks' : IsTick(k) /\ HasBegun(engine'[k.trade])
  BY <1>11, <1>13 DEF ViewsInv, StepInv, IsTick, Follows
<1>17. ASSUME NEW a \in patches'
       PROVE  /\ IsPatch(a)
              /\ a.field = "step" => IsBehind(a.trade, engine'[a.trade], a.value)
              /\ a.row # Null => IsBehind(a.trade, engine'[a.trade], a.row.step)
  <2>1. /\ IsPatch(a)
        /\ a.field = "step" => IsBehind(a.trade, engine[a.trade], a.value)
        /\ a.row # Null => IsBehind(a.trade, engine[a.trade], a.row.step)
    BY <1>13 DEF ViewsInv, StepInv
  <2>2. /\ a.trade \in ViewedTrades /\ a.field = "step" => a.value \in Int
        /\ a.row # Null => a.row.step \in Int \cup {Null}
    BY <2>1 DEF IsPatch, IsRow
  <2>3. QED
    BY <1>14, <2>1, <2>2 DEF IsPatch
<1>18. StepInv'
  <2>1. extension' = [u \in ViewedTrades |-> extension'[u]]
    BY <1>13
  <2>2. QED
    BY <1>9, <1>15, <1>16, <1>17, <2>1 DEF StepInv
<1>19. QED
  BY <1>7, <1>8, <1>10, <1>18 DEF ViewsInv

(* A step that leaves the engine, the rows and the calls about them alone    *)
LEMMA StepsStay ==
    ASSUME StepInv, UNCHANGED <<engine, extension, known, ticks, patches>> PROVE StepInv'
BY DEF StepInv

(* A view of a trade is a record, and says what state the trade is in        *)
LEMMA ViewIs ==
    ASSUME NEW t \in ViewedTrades, NEW tr, IsViewed(t, tr), tr.state # "WAITING_ENTRY" ,
           tr.state # "ACTIVE", NEW e, IsRow(e), NEW v, v = View(t, tr, e)
    PROVE  v # Null
<1>1. Stage(Definitions[t], tr, e.reason) \in TradeLifecycleStage
  <2>1. CASE tr.state = "COMPLETED"
    BY <2>1 DEF Stage, CompletedStage, TradeLifecycleStage
  <2>2. CASE tr.state = "CANCELLED"
    BY <2>2 DEF Stage, TradeLifecycleStage
  <2>3. QED
    BY <2>1, <2>2 DEF IsViewed
<1>2. PICK trails \in BOOLEAN : trails = (e.config # Null)
  OBVIOUS
<1>3. PICK stage : stage = Stage(Definitions[t], tr, e.reason)
  OBVIOUS
<1>4. v = [status |-> tr.state, stop |-> tr.stop, reason |-> e.reason, stage |-> stage,
           trailing |-> trails]
  BY <1>2, <1>3 DEF View
<1>5. v \in [status : TradeState, stop : Int, reason : ExitReasons \cup {Null},
             stage : TradeLifecycleStage, trailing : BOOLEAN]
  BY <1>1, <1>3, <1>4 DEF IsViewed, TradeRecord, IsRow
<1>6. QED
  BY <1>5, TradeViewsAssumption DEF TradeViewsAssumption

LEMMA ArchivedKeeps ==
    ASSUME ViewsInv, NEW t \in ViewedTrades, Archived(t) PROVE ViewsInv'
<1>1. CacheDrops
  BY NothingDropped DEF ViewsInv, Archived
<1>2. EngineInv' /\ StepInv'
  BY StepsStay DEF ViewsInv, Archived, EngineInv
<1>3. ReadInv'
  BY <1>1, ReadsStay DEF ViewsInv, Archived
<1>4. PICK tr : tr = archive[t]
  OBVIOUS
<1>5. /\ IsKept(t, engine[t], ended[t], tr, history[t]) /\ IsRow(extension[t])
      /\ tr # Null /\ IsViewed(t, tr) /\ tr.state \in Terminal /\ tr.state = ended[t].state
  BY <1>4 DEF ViewsInv, ArchiveInv, StepInv, IsKept, Archived
<1>6. PICK v : v = View(t, tr, extension[t])
  OBVIOUS
<1>7. v # Null
  BY <1>5, <1>6, ViewIs DEF Terminal
<1>8. v.status = tr.state
  BY <1>6 DEF View
<1>9. IsKept(t, engine[t], ended[t], Null, v)
  BY <1>5, <1>7, <1>8 DEF IsKept
<1>10. /\ history' = [u \in ViewedTrades |-> IF u = t THEN v ELSE history[u]]
       /\ archive' = [u \in ViewedTrades |-> IF u = t THEN Null ELSE archive[u]]
       /\ engine' = engine /\ ended' = ended
  BY <1>4, <1>6 DEF Archived, ViewsInv, ArchiveInv
<1>11. ArchiveInv'
  BY <1>9, <1>10 DEF ViewsInv, ArchiveInv
<1>12. QED
  BY <1>2, <1>3, <1>11 DEF ViewsInv

LEMMA ArchiveFailsKeeps ==
    ASSUME ViewsInv, NEW t \in ViewedTrades, ArchiveFails(t) PROVE ViewsInv'
<1>1. CacheDrops
  BY NothingDropped DEF ViewsInv, ArchiveFails
<1>2. EngineInv' /\ StepInv'
  BY StepsStay DEF ViewsInv, ArchiveFails, EngineInv
<1>3. PICK over : over = [ended[t] EXCEPT !.lost = TRUE]
  OBVIOUS
<1>4. PICK yes : yes = TRUE
  OBVIOUS
<1>5. IsKept(t, engine[t], ended[t], archive[t], history[t])
  BY DEF ViewsInv, ArchiveInv
<1>6. over = [state |-> ended[t].state, lost |-> yes]
  BY <1>3, <1>4, <1>5 DEF IsKept
<1>7. over.state = ended[t].state /\ over.lost /\ over = [state |-> over.state, lost |-> over.lost]
  BY <1>4, <1>6
<1>8. IsKept(t, engine[t], over, Null, history[t])
  BY <1>5, <1>7 DEF IsKept
<1>9. /\ ended' = [u \in ViewedTrades |-> IF u = t THEN over ELSE ended[u]]
      /\ archive' = [u \in ViewedTrades |-> IF u = t THEN Null ELSE archive[u]]
      /\ engine' = engine /\ history' = history /\ cache' = cache /\ reader' = reader
  BY <1>3 DEF ArchiveFails, ViewsInv, ArchiveInv
<1>10. ArchiveInv'
  BY <1>8, <1>9 DEF ViewsInv, ArchiveInv
<1>11. \A u \in ViewedTrades : \A state : SaysHow(state, ended[u]) => SaysHow(state, ended'[u])
  BY <1>7, <1>9 DEF SaysHow
<1>12. ReadInv'
  BY <1>9, <1>11 DEF ViewsInv, ReadInv
<1>13. QED
  BY <1>2, <1>10, <1>12 DEF ViewsInv

LEMMA PruneKeeps ==
    ASSUME ViewsInv, NEW t \in ViewedTrades, Prune(t) PROVE ViewsInv'
<1>1. /\ Replaced(t, Null) /\ engine[t] # Null /\ engine[t].state \in Terminal /\ archive[t] = Null
      /\ UNCHANGED <<extension, known, ticks, patches, archive, history, ended, reader>>
  BY DEF Prune, Held, Over, Busy, Replaced
<1>2. EngineInv' /\ engine'[t] = Null /\ \A u \in ViewedTrades \ {t} : engine'[u] = engine[u]
  BY <1>1, EngineTurns DEF ViewsInv
<1>3. IsKept(t, Null, ended[t], archive[t], history[t])
  BY <1>1 DEF ViewsInv, ArchiveInv, IsKept, HasEnded
<1>4. ArchiveInv'
  BY <1>1, <1>2, <1>3 DEF ViewsInv, ArchiveInv
<1>5. CacheDrops
  BY DEF Prune, ViewsInv, ReadInv, CacheDrops
<1>6. ReadInv'
  BY <1>1, <1>5, ReadsStay DEF ViewsInv
<1>7. RowsKnown
  BY <1>1 DEF RowsKnown, ViewsInv, StepInv
<1>8. Follows(t, engine[t], Null)
  BY DEF Follows, KeepsBehind, IsBehind, HasEnded, HasBegun
<1>9. \A u \in ViewedTrades : Follows(u, engine[u], engine'[u])
  BY <1>2, <1>8, StaysPut
<1>10. StepInv'
  BY <1>1, <1>7, <1>9, StepsFollow DEF ViewsInv
<1>11. QED
  BY <1>2, <1>4, <1>6, <1>10 DEF ViewsInv

(* A request takes snapshots of trades the engine holds                      *)
LEMMA TakesKeeps ==
    ASSUME ViewsInv, NEW r \in Readers, NEW trades, trades \subseteq Held, Takes(r, trades),
           UNCHANGED <<cache, ended>>
    PROVE  ReadInv'
<1>1. \A t \in trades : t \in ViewedTrades /\ IsViewed(t, engine[t])
                        /\ SaysHow(engine[t].state, ended[t])
  BY DEF ViewsInv, EngineInv, ArchiveInv, IsKept, Held, HasEnded, SaysHow
<1>2. PICK taken : taken = [t \in trades |-> engine[t]]
  OBVIOUS
<1>3. PICK asked : asked = [pc |-> "compose", trades |-> trades, snapshots |-> taken]
  OBVIOUS
<1>4. reader' = [s \in Readers |-> IF s = r THEN asked ELSE reader[s]]
  BY <1>2, <1>3 DEF Takes, ViewsInv, ReadInv
<1>5. \A t \in asked.trades : /\ t \in ViewedTrades /\ IsViewed(t, asked.snapshots[t])
                             /\ SaysHow(asked.snapshots[t].state, ended[t])
  BY <1>1, <1>2, <1>3
<1>6. QED
  BY <1>4, <1>5 DEF ViewsInv, ReadInv

LEMMA RestStays ==
    ASSUME ViewsInv, UNCHANGED <<engine, extension, known, patches, ticks, archive, history, ended>>
    PROVE  EngineInv' /\ ArchiveInv' /\ StepInv'
<1>1. EngineInv' /\ ArchiveInv'
  BY DEF ViewsInv, EngineInv, ArchiveInv
<1>2. QED
  BY <1>1, StepsStay DEF ViewsInv

LEMMA GetKeeps ==
    ASSUME ViewsInv, NEW r \in Readers, NEW t \in ViewedTrades, GetPosition(r, t) PROVE ViewsInv'
<1>1. EngineInv' /\ ArchiveInv' /\ StepInv'
  BY RestStays DEF GetPosition
<1>2. CASE t \in Held
  BY <1>1, <1>2, TakesKeeps DEF GetPosition, ViewsInv
<1>3. CASE t \notin Held
  <2>1. PICK look : look = [pc |-> "archive", trades |-> {t}, snapshots |-> <<>>]
    OBVIOUS
  <2>2. reader' = [s \in Readers |-> IF s = r THEN look ELSE reader[s]]
    BY <1>3, <2>1 DEF GetPosition, ViewsInv, ReadInv
  <2>3. look.pc # "compose"
    BY <2>1
  <2>4. ReadInv'
    BY <2>2, <2>3 DEF ViewsInv, ReadInv, GetPosition
  <2>5. QED
    BY <1>1, <2>4 DEF ViewsInv
<1>4. QED
  BY <1>2, <1>3

LEMMA GetManyKeeps ==
    ASSUME ViewsInv, NEW r \in Readers, NEW onlyActive \in BOOLEAN, GetPositions(r, onlyActive)
    PROVE  ViewsInv'
<1>1. EngineInv' /\ ArchiveInv' /\ StepInv'
  BY RestStays DEF GetPositions
<1>2. PICK uncached : uncached = {t \in Held : cache[t] = Null /\ (onlyActive => ~Over(t))}
  OBVIOUS
<1>3. uncached \subseteq Held /\ Takes(r, uncached)
  BY <1>2 DEF GetPositions
<1>4. ReadInv'
  BY <1>3, TakesKeeps DEF GetPositions
<1>5. QED
  BY <1>1, <1>4 DEF ViewsInv

LEMMA ComposedKeeps ==
    ASSUME ViewsInv, NEW r \in Readers, Composed(r) PROVE ViewsInv'
<1>1. EngineInv' /\ ArchiveInv' /\ StepInv'
  BY RestStays DEF Composed
<1>2. /\ reader' = [s \in Readers |-> IF s = r THEN Quiet ELSE reader[s]]
      /\ cache' = [t \in ViewedTrades |->
                     IF t \in reader[r].trades
                     THEN View(t, reader[r].snapshots[t], extension[t]) ELSE cache[t]]
      /\ ended' = ended /\ reader[r].pc = "compose"
  BY DEF Composed, ViewsInv, ReadInv
<1>3. \A t \in ViewedTrades : cache'[t] # Null => SaysHow(cache'[t].status, ended'[t])
  BY <1>2 DEF ViewsInv, ReadInv, View
<1>4. ReadInv'
  BY <1>2, <1>3 DEF ViewsInv, ReadInv, Quiet
<1>5. QED
  BY <1>1, <1>4 DEF ViewsInv

LEMMA ArchiveReadKeeps ==
    ASSUME ViewsInv, NEW r \in Readers, FoundInArchive(r) PROVE ViewsInv'
<1>1. EngineInv' /\ ArchiveInv' /\ StepInv'
  BY RestStays DEF FoundInArchive
<1>2. PICK u \in reader[r].trades :
        cache' = [cache EXCEPT ![u] = IF history[u] = Null THEN @ ELSE history[u]]
  BY DEF FoundInArchive
<1>3. /\ reader' = [s \in Readers |-> IF s = r THEN Quiet ELSE reader[s]]
      /\ cache' = [t \in ViewedTrades |-> cache'[t]]
      /\ \A t \in ViewedTrades : cache'[t] \in {cache[t], history[t]}
      /\ ended' = ended
  BY <1>2 DEF FoundInArchive, ViewsInv, ReadInv
<1>4. \A t \in ViewedTrades : history[t] # Null => SaysHow(history[t].status, ended[t])
  BY DEF ViewsInv, ArchiveInv, IsKept, SaysHow
<1>5. \A t \in ViewedTrades : cache'[t] # Null => SaysHow(cache'[t].status, ended'[t])
  BY <1>3, <1>4 DEF ViewsInv, ReadInv
<1>6. ReadInv'
  BY <1>3, <1>5 DEF ViewsInv, ReadInv, Quiet
<1>7. QED
  BY <1>1, <1>6 DEF ViewsInv

(* The views' invariant is inductive *)
LEMMA ViewsNext == ViewsInv /\ [NextViews]_viewVars => ViewsInv'
<1>1. SUFFICES ASSUME ViewsInv, [NextViews]_viewVars PROVE ViewsInv'
  OBVIOUS
<1>2. CASE \E t \in ViewedTrades : EntryFilled(t) \/ CancelTrade(t) \/ ApplyTrailing(t) \/ ExitAnswered(t)
  BY <1>1, <1>2, FillKeeps, CancelKeeps, TrailingKeeps, ExitKeeps
<1>3. CASE \E t \in ViewedTrades, p \in Prices : MarketPrice(t, p)
  BY <1>1, <1>3, PriceKeeps
<1>4. CASE \E t \in ViewedTrades : \E reason \in AskedFor(t) : RequestExit(t, reason)
  BY <1>1, <1>4, RequestKeeps
<1>5. CASE \E tick \in ticks : Evaluate(tick)
  BY <1>1, <1>5, EvaluateKeeps
<1>6. CASE \E p \in patches : PatchFound(p) \/ PatchSaved(p)
  BY <1>1, <1>6, FoundKeeps, SavedKeeps
<1>7. CASE \E t \in ViewedTrades : Archived(t) \/ ArchiveFails(t) \/ Prune(t)
  BY <1>1, <1>7, ArchivedKeeps, ArchiveFailsKeeps, PruneKeeps
<1>8. CASE \E r \in Readers, t \in ViewedTrades : GetPosition(r, t)
  BY <1>1, <1>8, GetKeeps
<1>9. CASE \E r \in Readers, onlyActive \in BOOLEAN : GetPositions(r, onlyActive)
  BY <1>1, <1>9, GetManyKeeps
<1>10. CASE \E r \in Readers : Composed(r) \/ FoundInArchive(r)
  BY <1>1, <1>10, ComposedKeeps, ArchiveReadKeeps
<1>11. CASE UNCHANGED viewVars
  BY <1>1, <1>11 DEF viewVars, ViewsInv, EngineInv, ArchiveInv, ReadInv, StepInv
<1>12. QED
  BY <1>1, <1>2, <1>3, <1>4, <1>5, <1>6, <1>7, <1>8, <1>9, <1>10, <1>11 DEF NextViews

LEMMA ViewsAlways == ViewsSpec => []ViewsInv
BY ViewsStart, ViewsNext, PTL DEF ViewsSpec

(* What the views show: a trade that was evicted from memory is in the trade *)
(* history in the state it ended in, unless saving it there failed, and no   *)
(* view that says a trade is over contradicts how it ended; whatever the     *)
(* interleaving of the requests, the calls for the rows, the archive, the    *)
(* answers of the broker and the evictions.                                  *)
THEOREM EvictedIsFound == ViewsSpec => []PrunedIsFindable
<1>1. ViewsInv => PrunedIsFindable
  <2>1. SUFFICES ASSUME ViewsInv, NEW t \in ViewedTrades
                 PROVE  /\ engine[t] = Null => history[t] # Null \/ ended[t].lost
                        /\ \A view \in {cache[t], history[t]} :
                             view # Null /\ view.status \in Terminal => view.status = ended[t].state
    BY DEF PrunedIsFindable
  <2>2. IsKept(t, engine[t], ended[t], archive[t], history[t])
    BY <2>1 DEF ViewsInv, ArchiveInv
  <2>3. engine[t] = Null => history[t] # Null \/ ended[t].lost
    BY <2>2 DEF IsKept, HasEnded
  <2>4. cache[t] # Null => SaysHow(cache[t].status, ended[t])
    BY <2>1 DEF ViewsInv, ReadInv
  <2>5. QED
    BY <2>2, <2>3, <2>4 DEF IsKept, SaysHow
<1>2. QED
  BY <1>1, ViewsAlways, PTL

(* The last step TrailingManager keeps for a trade is not beyond the stop    *)
(* the trade has, as long as no target was hit: whichever of the ticks       *)
(* under way saves last, and whatever configuration the owner has saved.     *)
THEOREM StepsStayBehind == ViewsSpec => []StepNeverAhead
<1>1. ViewsInv => StepNeverAhead
  <2>1. SUFFICES ASSUME ViewsInv, NEW t \in ViewedTrades, engine[t] # Null,
                        engine[t].state = "ACTIVE", engine[t].next = 1, extension[t].step # Null
                 PROVE  ~Better(Definitions[t].direction, extension[t].step, engine[t].stop)
    BY DEF StepNeverAhead, Held
  <2>2. IsBehind(t, engine[t], extension[t].step)
    BY <2>1 DEF ViewsInv, StepInv
  <2>3. ~HasEnded(engine[t])
    BY <2>1, NullIsNone DEF HasEnded, Terminal
  <2>4. QED
    BY <2>1, <2>2, <2>3 DEF IsBehind
<1>2. QED
  BY <1>1, ViewsAlways, PTL

-----------------------------------------------------------------------------
(* The figures, for every input                                              *)

LEMMA WholeSteps ==
    ASSUME NEW move \in Int, NEW size \in Int, size > 0, move >= size
    PROVE  (move \div size) * size \in Int /\ (move \div size) * size <= move
OBVIOUS

LEMMA ShareIsPositive ==
    ASSUME NEW mark \in Nat, NEW size \in Int, size > 0
    PROVE  (mark * size) \div 100 \in Nat
<1>1. mark * size \in Nat
  OBVIOUS
<1>2. PICK n \in Nat : n = mark * size
  BY <1>1
<1>3. n \div 100 \in Nat
  OBVIOUS
<1>4. QED
  BY <1>2, <1>3

(* A stop that TrailingCalculator proposes never gives back the profit that  *)
(* is locked, and without a lock it is on the losing side of the mark price: *)
(* it does not close the trade at once.  For every configuration, entry,     *)
(* stop, mark price and step.                                                *)
LEMMA ProposalsHold ==
    ASSUME Null \notin Int,
           NEW config \in [strategy : Strategies, size : Int \cup {Null}, lock : Int \cup {Null}],
           NEW c \in [direction : {"LONG", "SHORT"}, entry : Nat, stop : Int, mark : Nat,
                      step : Int \cup {Null}]
    PROVE  ProposalHolds(config, c)
<1>1. PICK raw : raw = ComputeRaw(config, c)
  OBVIOUS
<1>2. PICK final : final = Compute(config, c)
  OBVIOUS
<1>3. SUFFICES ASSUME final.stop # Null
               PROVE  IF config.lock # Null /\ config.lock > 0
                      THEN Sign(c.direction) * (final.stop - c.entry) >= config.lock
                      ELSE ~Better(c.direction, final.stop, c.mark)
  BY <1>2 DEF ProposalHolds
<1>4. raw # NoProposal
  BY <1>1, <1>2, <1>3 DEF Compute, NoProposal, Proposal
<1>5. PICK stop \in Int : raw.stop = stop /\ raw = [stop |-> stop, step |-> raw.step]
  BY <1>1, <1>4, RawIs
<1>6. PICK held : held = ApplyProfitLock(config, c, stop)
  OBVIOUS
<1>7. final.stop = held
  BY <1>1, <1>2, <1>4, <1>5, <1>6 DEF Compute
<1>8. CASE config.lock # Null /\ config.lock > 0
  <2>1. PICK lock \in Int : lock = config.lock /\ lock > 0
    BY <1>8
  <2>4. Sign(c.direction) * (held - c.entry) >= lock
    <3>1. CASE c.direction = "LONG"
      <4>1. held = IF stop > c.entry + lock THEN stop ELSE c.entry + lock
        BY <1>6, <2>1, <3>1 DEF ApplyProfitLock, Better, Sign
      <4>2. QED
        BY <4>1, <3>1 DEF Sign
    <3>2. CASE c.direction = "SHORT"
      <4>1. held = IF stop < c.entry - lock THEN stop ELSE c.entry - lock
        BY <1>6, <2>1, <3>2 DEF ApplyProfitLock, Better, Sign
      <4>2. QED
        BY <4>1, <3>2 DEF Sign
    <3>3. QED
      BY <3>1, <3>2
  <2>5. QED
    BY <1>7, <1>8, <2>1, <2>4
<1>9. CASE ~(config.lock # Null /\ config.lock > 0)
  <2>1. held = stop
    <3>1. config.lock = Null \/ config.lock <= 0
      BY <1>9
    <3>2. QED
      BY <1>6, <3>1 DEF ApplyProfitLock
  <2>2. ~Better(c.direction, stop, c.mark)
    <3>1. CASE config.strategy = "BREAK_EVEN"
      <4>1. raw = Proposal(c.entry, Null) /\ Better(c.direction, c.mark, c.entry)
        BY <1>1, <1>4, <3>1 DEF ComputeRaw, BreakEven
      <4>2. stop = c.entry
        BY <1>5, <4>1 DEF Proposal
      <4>3. QED
        BY <4>1, <4>2 DEF Better
    <3>2. CASE config.strategy # "BREAK_EVEN"
      <4>1. /\ config.strategy \in {"FIXED_POINTS", "PERCENTAGE", "STEP"}
            /\ config.size # Null /\ ~(config.size <= 0)
        BY <1>1, <1>4, <3>2 DEF ComputeRaw, Strategies
      <4>2. PICK size \in Int : size = config.size /\ size > 0
        BY <4>1
      <4>3. PICK mark \in Nat : mark = c.mark
        OBVIOUS
      <4>4. CASE config.strategy = "FIXED_POINTS"
        <5>1. raw = Proposal(c.mark - Sign(c.direction) * size, Null)
          BY <1>1, <4>1, <4>2, <4>4 DEF ComputeRaw, FixedPoints
        <5>2. stop = mark - Sign(c.direction) * size
          BY <1>5, <4>3, <5>1 DEF Proposal
        <5>3. QED
          BY <4>2, <4>3, <5>2 DEF Better, Sign
      <4>5. CASE config.strategy = "PERCENTAGE"
        <5>1. PICK part \in Nat : part = (mark * size) \div 100
          BY <4>2, ShareIsPositive
        <5>2. raw = Proposal(mark - Sign(c.direction) * part, Null)
          BY <1>1, <4>1, <4>2, <4>3, <4>5, <5>1 DEF ComputeRaw, Percentage
        <5>3. stop = mark - Sign(c.direction) * part
          BY <1>5, <5>2 DEF Proposal
        <5>4. QED
          BY <4>3, <5>3 DEF Better, Sign
      <4>6. CASE config.strategy = "STEP"
        <5>1. PICK base \in Int : base = IF c.step = Null THEN c.entry ELSE c.step
          OBVIOUS
        <5>2. PICK move \in Int : move = Sign(c.direction) * (mark - base)
          BY DEF Sign
        <5>3. raw = Step(config, c)
          BY <1>1, <4>1, <4>6 DEF ComputeRaw
        <5>4. ~(move < size)
          BY <1>4, <4>2, <4>3, <5>1, <5>2, <5>3 DEF Step
        <5>5. PICK whole : whole = (move \div size) * size
          OBVIOUS
        <5>6. whole \in Int /\ whole <= move
          BY <4>2, <5>4, <5>5, WholeSteps
        <5>7. PICK next : next = base + Sign(c.direction) * (move \div size) * size
          OBVIOUS
        <5>8. next = base + Sign(c.direction) * whole
          <6>1. PICK n \in Int : n = move \div size
            BY <4>2
          <6>2. QED
            BY <4>2, <5>5, <5>7, <6>1 DEF Sign
        <5>9. raw = Proposal(next, next)
          BY <4>2, <4>3, <5>1, <5>2, <5>3, <5>4, <5>7 DEF Step
        <5>10. stop = next
          BY <1>5, <5>9 DEF Proposal
        <5>11. QED
          BY <4>3, <5>2, <5>6, <5>8, <5>10 DEF Better, Sign
      <4>7. QED
        BY <4>1, <4>4, <4>5, <4>6
    <3>3. QED
      BY <3>1, <3>2
  <2>3. QED
    BY <1>7, <1>9, <2>1, <2>2
<1>10. QED
  BY <1>3, <1>8, <1>9

(* What the history reads back of an archived record is the record: the      *)
(* charges and the net profit, computed again from what is stored, come out  *)
(* as they were shown.                                                       *)
LEMMA HistoryReadsBack ==
    ASSUME NEW p, NEW mark PROVE ArchiveReadsBack(p, mark)
<1>1. PICK r : r = Record(p, mark)
  OBVIOUS
<1>2. r = [direction |-> r.direction, averagePrice |-> r.averagePrice,
           entryPrice |-> r.entryPrice, exitPrice |-> r.exitPrice, filled |-> r.filled,
           open |-> r.open, exited |-> r.exited, realized |-> r.realized,
           unrealized |-> r.unrealized, charges |-> r.charges, net |-> r.net]
  BY <1>1, SMT DEF Record
<1>3. r.charges = Charges(r.direction, OrZero(r.averagePrice) * r.filled,
                          OrZero(r.exitPrice) * r.exited)
  BY <1>1, SMT DEF Record
<1>4. r.net = IF r.filled = 0 THEN Null
              ELSE (OrZero(r.realized) + OrZero(r.unrealized)) * 1000000 - r.charges
  BY <1>1, SMT DEF Record
<1>5. PICK first : first = [r EXCEPT !.charges = r.charges]
  OBVIOUS
<1>6. first = r
  BY <1>2, <1>5, SMT
<1>7. PICK second : second = [first EXCEPT !.net = r.net]
  OBVIOUS
<1>8. second = r
  BY <1>2, <1>6, <1>7, SMT
<1>9. ToRecord(r) = second
  BY <1>3, <1>4, <1>5, <1>7, SMT DEF ToRecord
<1>10. QED
  BY <1>1, <1>8, <1>9, SMT DEF ArchiveReadsBack

(* What is shown of an open position at a price is what is booked when the   *)
(* whole of it is sold there: PnLService and calculateBookedPnl agree.       *)
LEMMA ShownIsBooked ==
    ASSUME Null \notin Int,
           NEW p \in [direction : {"LONG", "SHORT"}, trigger : Int, fill : Int \cup {Null},
                      filled : Nat, exited : Nat, proceeds : Int],
           p.fill = Null <=> p.filled = 0, p.exited = 0 => p.proceeds = 0,
           NEW mark \in Int
    PROVE  MarkIsRealized(p, mark)
<1>1. SUFFICES ASSUME p.filled > 0
               PROVE  Mtm(p, mark)
                        = BookedPnl([p EXCEPT !.exited = p.filled,
                                              !.proceeds = @ + mark * (p.filled - p.exited)])
  BY DEF MarkIsRealized
<1>2. PICK fill \in Int : fill = p.fill
  BY <1>1
<1>3. PICK sign \in Int : sign = Sign(p.direction) /\ sign \in {1, -1}
  BY DEF Sign
<1>4. PICK earned \in Int : earned = p.proceeds + mark * (p.filled - p.exited)
  OBVIOUS
<1>5. PICK q : q = [p EXCEPT !.exited = p.filled,
                             !.proceeds = p.proceeds + mark * (p.filled - p.exited)]
  OBVIOUS
<1>6. BookedPnl(q) = sign * (earned - fill * p.filled)
  BY <1>1, <1>2, <1>3, <1>4, <1>5 DEF BookedPnl
<1>7. PICK live \in Int : live = sign * (mark - fill) * (p.filled - p.exited)
  OBVIOUS
<1>8. UnrealizedPnl(p, mark) = live
  BY <1>1, <1>2, <1>3, <1>7 DEF UnrealizedPnl
<1>9. mark # Null /\ live # Null
  BY <1>7
<1>10. Mtm(p, mark) = live + OrZero(BookedPnl(p))
  BY <1>8, <1>9 DEF Mtm, OrZero
<1>11. PICK booked \in Int : booked = IF p.exited = 0 THEN 0 ELSE sign * (p.proceeds - fill * p.exited)
  OBVIOUS
<1>12. OrZero(BookedPnl(p)) = booked
  BY <1>2, <1>3, <1>11 DEF OrZero, BookedPnl
<1>13. live + booked = sign * (earned - fill * p.filled)
  <2>1. PICK e \in Nat, f \in Nat, g \in Int : e = p.exited /\ f = p.filled /\ g = p.proceeds
    OBVIOUS
  <2>2. booked = sign * (g - fill * e)
    <3>1. CASE e = 0
      BY <1>11, <2>1, <3>1
    <3>2. CASE e # 0
      BY <1>11, <2>1, <3>2
    <3>3. QED
      BY <3>1, <3>2
  <2>3. live = sign * (mark - fill) * (f - e) /\ earned = g + mark * (f - e)
    BY <1>4, <1>7, <2>1
  <2>4. CASE sign = 1
    <3>1. live = mark * f - mark * e - fill * f + fill * e
      BY <2>3, <2>4
    <3>2. booked = g - fill * e /\ earned = g + mark * f - mark * e
      BY <2>2, <2>3, <2>4
    <3>3. QED
      BY <2>1, <2>4, <3>1, <3>2
  <2>5. CASE sign = -1
    <3>1. live = -(mark * f - mark * e - fill * f + fill * e)
      BY <2>3, <2>5
    <3>2. booked = -(g - fill * e) /\ earned = g + mark * f - mark * e
      BY <2>2, <2>3, <2>5
    <3>3. QED
      BY <2>1, <2>5, <3>1, <3>2
  <2>6. QED
    BY <1>3, <2>4, <2>5
<1>14. QED
  BY <1>5, <1>6, <1>10, <1>12, <1>13

-----------------------------------------------------------------------------
(* The lots of an instrument, netted.  The totals are computed by recursion  *)
(* over the records; what is said of every number is said of a set of them,  *)
(* since a set of numbers that is not empty has a least one.                 *)

LEMMA EveryNumber ==
    ASSUME NEW S \in SUBSET Nat, 0 \in S, \A n \in S : n + 1 \in S
    PROVE  S = Nat
<1>. DEFINE T == Nat \ S
<1>1. SUFFICES ASSUME T # {} PROVE FALSE
  OBVIOUS
<1>2. PICK t \in T : \A u \in T : <<u, t>> \notin OpToRel(<, Nat)
  BY <1>1, NatLessThanWellFounded, WFMin
<1>3. t \in Nat /\ t # 0 /\ t - 1 \in Nat
  OBVIOUS
<1>4. t - 1 \notin T
  <2>1. ASSUME NEW u \in T, u = t - 1 PROVE FALSE
    <3>1. u \in Nat /\ t \in Nat /\ u < t
      BY <1>3, <2>1
    <3>2. QED
      BY <1>2, <3>1 DEF OpToRel
  <2>2. QED
    BY <2>1
<1>5. t - 1 \in S
  BY <1>3, <1>4
<1>6. (t - 1) + 1 \in S
  BY <1>5
<1>7. QED
  BY <1>3, <1>6

(* The total with one more record, and what a table of totals is             *)
WithRecord(total, record) == IF record.open <= 0 THEN total ELSE Counted(total, record)

IsTable(g, records, m) ==
    g = [n \in 0..m |-> IF n = 0 THEN NoTotals ELSE WithRecord(g[n - 1], records[n])]

LEMMA TableGoesOn ==
    ASSUME NEW g, NEW records, NEW m \in Nat, IsTable(g, records, m), NEW k \in 1..m
    PROVE  g[k] = WithRecord(g[k - 1], records[k])
<1>1. k \in 0..m /\ k # 0
  OBVIOUS
<1>2. PICK f : f = [n \in 0..m |-> IF n = 0 THEN NoTotals ELSE WithRecord(g[n - 1], records[n])]
  OBVIOUS
<1>3. f[k] = WithRecord(g[k - 1], records[k])
  BY <1>1, <1>2
<1>4. QED
  BY <1>2, <1>3 DEF IsTable

LEMMA TableExists ==
    ASSUME NEW records, NEW m \in Nat PROVE \E g : IsTable(g, records, m)
<1>. DEFINE S == {k \in Nat : \E g : IsTable(g, records, k)}
<1>1. 0 \in S
  <2>1. PICK g : g = [n \in 0..0 |-> NoTotals]
    OBVIOUS
  <2>2. g = [n \in 0..0 |-> IF n = 0 THEN NoTotals ELSE WithRecord(g[n - 1], records[n])]
    BY <2>1
  <2>3. QED
    BY <2>2 DEF IsTable
<1>2. ASSUME NEW k \in S PROVE k + 1 \in S
  <2>1. PICK g : IsTable(g, records, k)
    OBVIOUS
  <2>2. PICK h : h = [n \in 0..(k + 1) |-> IF n <= k THEN g[n]
                                           ELSE WithRecord(g[k], records[k + 1])]
    OBVIOUS
  <2>3. ASSUME NEW n \in 0..(k + 1)
        PROVE  h[n] = IF n = 0 THEN NoTotals ELSE WithRecord(h[n - 1], records[n])
    <3>1. CASE n = 0
      <4>1. h[0] = g[0] /\ g[0] = NoTotals
        BY <2>1, <2>2 DEF IsTable
      <4>2. QED
        BY <3>1, <4>1
    <3>2. CASE n \in 1..k
      <4>1. h[n] = g[n] /\ h[n - 1] = g[n - 1]
        BY <2>2, <3>2
      <4>2. g[n] = WithRecord(g[n - 1], records[n])
        BY <2>1, <3>2 DEF IsTable
      <4>3. QED
        BY <3>2, <4>1, <4>2
    <3>3. CASE n = k + 1
      <4>1. h[n] = WithRecord(g[k], records[k + 1]) /\ h[n - 1] = g[k]
        BY <2>2, <3>3
      <4>2. QED
        BY <3>3, <4>1
    <3>4. QED
      BY <3>1, <3>2, <3>3
  <2>4. h = [n \in 0..(k + 1) |-> IF n = 0 THEN NoTotals ELSE WithRecord(h[n - 1], records[n])]
    BY <2>2, <2>3
  <2>5. IsTable(h, records, k + 1)
    BY <2>4 DEF IsTable
  <2>6. QED
    BY <2>5
<1>3. S = Nat
  <2>. HIDE DEF S
  <2>1. S \in SUBSET Nat
    BY DEF S
  <2>2. QED
    BY <1>1, <1>2, <2>1, EveryNumber
<1>4. QED
  BY <1>3

LEMMA TotalsAre ==
    ASSUME NEW records, Len(records) \in Nat
    PROVE  \E g : IsTable(g, records, Len(records)) /\ Totals(records) = g[Len(records)]
<1>1. PICK g : g = CHOOSE t : t = [n \in 0..Len(records) |->
                     IF n = 0 THEN NoTotals
                     ELSE IF records[n].open <= 0 THEN t[n - 1]
                     ELSE Counted(t[n - 1], records[n])]
  OBVIOUS
<1>2. PICK h : IsTable(h, records, Len(records))
  BY TableExists
<1>3. h = [n \in 0..Len(records) |-> IF n = 0 THEN NoTotals
                                      ELSE IF records[n].open <= 0 THEN h[n - 1]
                                      ELSE Counted(h[n - 1], records[n])]
  BY <1>2 DEF IsTable, WithRecord
<1>4. g = [n \in 0..Len(records) |-> IF n = 0 THEN NoTotals
                                      ELSE IF records[n].open <= 0 THEN g[n - 1]
                                      ELSE Counted(g[n - 1], records[n])]
  BY <1>1, <1>3
<1>5. IsTable(g, records, Len(records))
  BY <1>4 DEF IsTable, WithRecord
<1>6. Totals(records) = g[Len(records)]
  BY <1>1 DEF Totals
<1>7. QED
  BY <1>5, <1>6

(* What an open lot adds to the totals: its position is filled, so it has a  *)
(* price and, at a mark price, an unrealized profit.                         *)
LEMMA LotIs ==
    ASSUME Null \notin Int, NEW p, IsPosition(p), NEW mark \in Int,
           NEW lot, lot = Record(p, mark), ~(lot.open <= 0)
    PROVE  \E sign \in {1, -1}, fill \in Int, open \in Int :
             /\ sign = Sign(lot.direction) /\ fill = lot.averagePrice /\ open = lot.open
             /\ fill # Null
             /\ lot.unrealized = sign * (mark - fill) * open
<1>1. p.direction \in {"LONG", "SHORT"} /\ p.filled \in Nat /\ p.exited \in Nat
  BY DEF IsPosition
<1>2. lot.direction = p.direction /\ lot.averagePrice = p.fill
  BY DEF Record
<1>3. lot.open = p.filled - p.exited
  BY DEF Record
<1>4. p.filled > 0
  BY <1>1, <1>3
<1>5. PICK fill \in Int : fill = p.fill
  BY <1>1, <1>4 DEF IsPosition
<1>6. mark # Null /\ fill # Null
  BY <1>5
<1>7. lot.unrealized = UnrealizedPnl(p, mark)
  BY <1>6, SMT DEF Record
<1>8. UnrealizedPnl(p, mark) = Sign(p.direction) * (mark - fill) * (p.filled - p.exited)
  BY <1>1, <1>4, <1>5, <1>6 DEF UnrealizedPnl
<1>9. PICK sign \in {1, -1} : sign = Sign(p.direction)
  BY DEF Sign
<1>10. PICK open \in Int : open = p.filled - p.exited
  BY <1>1
<1>11. lot.unrealized = sign * (mark - fill) * open
  BY <1>5, <1>7, <1>8, <1>9, <1>10
<1>12. QED
  BY <1>2, <1>3, <1>5, <1>6, <1>9, <1>10, <1>11

(* What has been totalled earns what its lots earn: at the mark price, the   *)
(* value of the quantity less what it cost.                                  *)
Earns(total, mark) ==
    /\ total.quantity \in Int /\ total.value \in Int
    /\ total.unrealized = mark * total.quantity - total.value

LEMMA LotAdds ==
    ASSUME Null \notin Int, NEW p, IsPosition(p), NEW mark \in Int,
           NEW total, Earns(total, mark)
    PROVE  Earns(WithRecord(total, Record(p, mark)), mark)
<1>1. PICK lot : lot = Record(p, mark)
  OBVIOUS
<1>2. CASE lot.open <= 0
  BY <1>1, <1>2 DEF WithRecord
<1>3. CASE ~(lot.open <= 0)
  <2>1. PICK sign \in {1, -1}, fill \in Int, open \in Int :
             /\ sign = Sign(lot.direction) /\ fill = lot.averagePrice /\ open = lot.open
             /\ fill # Null
             /\ lot.unrealized = sign * (mark - fill) * open
    BY <1>1, <1>3, LotIs
  <2>2. PICK after : after = Counted(total, lot)
    OBVIOUS
  <2>3. after.quantity = total.quantity + sign * open
    BY <2>1, <2>2 DEF Counted
  <2>4. after.value = total.value + sign * open * fill
    BY <2>1, <2>2 DEF Counted
  <2>5. sign * (mark - fill) * open \in Int
    BY <2>1
  <2>6. after.unrealized = total.unrealized + sign * (mark - fill) * open
    <3>1. OrZero(lot.unrealized) = sign * (mark - fill) * open
      BY <2>1, <2>5 DEF OrZero
    <3>2. after.unrealized = total.unrealized + OrZero(lot.unrealized)
      BY <2>2 DEF Counted
    <3>3. QED
      BY <3>1, <3>2
  <2>7. PICK q \in Int, v \in Int : q = total.quantity /\ v = total.value
    BY DEF Earns
  <2>8. total.unrealized = mark * q - v
    BY <2>7 DEF Earns
  <2>9. (mark * q - v) + sign * (mark - fill) * open
          = mark * (q + sign * open) - (v + sign * open * fill)
    <3>1. CASE sign = 1
      <4>1. sign * (mark - fill) * open = mark * open - open * fill
        BY <2>1, <3>1
      <4>2. mark * (q + open) = mark * q + mark * open
        BY <2>1, <2>7
      <4>3. QED
        BY <2>1, <2>7, <3>1, <4>1, <4>2
    <3>2. CASE sign = -1
      <4>1. sign * (mark - fill) * open = open * fill - mark * open
        BY <2>1, <3>2
      <4>2. mark * (q - open) = mark * q - mark * open
        BY <2>1, <2>7
      <4>3. sign * open = -open /\ sign * open * fill = -(open * fill)
        BY <2>1, <3>2
      <4>4. QED
        BY <2>1, <2>7, <4>1, <4>2, <4>3
    <3>3. QED
      BY <2>1, <3>1, <3>2
  <2>10. q + sign * open \in Int /\ v + sign * open * fill \in Int
    BY <2>1, <2>7
  <2>11. Earns(after, mark)
    BY <2>3, <2>4, <2>6, <2>7, <2>8, <2>9, <2>10 DEF Earns
  <2>12. QED
    BY <1>1, <1>3, <2>2, <2>11 DEF WithRecord
<1>4. QED
  BY <1>2, <1>3

(* However many lots there are, and whatever was sold of each                *)
LEMMA BookAddsUp ==
    ASSUME Null \notin Int, NEW book, NEW mark \in Int,
           Len(book) \in Nat, DOMAIN book = 1..Len(book), \A i \in 1..Len(book) : IsPosition(book[i]),
           NEW records, records = [i \in DOMAIN book |-> Record(book[i], mark)],
           Len(records) = Len(book)
    PROVE  NetEarnsWhatLotsEarn(records, mark)
<1>1. PICK m \in Nat : m = Len(book)
  OBVIOUS
<1>2. PICK g : IsTable(g, records, m) /\ Totals(records) = g[m]
  BY <1>1, TotalsAre
<1>. DEFINE S == {n \in Nat : n <= m => Earns(g[n], mark)}
<1>3. 0 \in S
  <2>1. g[0] = NoTotals
    BY <1>1, <1>2 DEF IsTable
  <2>2. Earns(NoTotals, mark)
    BY DEF Earns, NoTotals
  <2>3. QED
    BY <2>1, <2>2
<1>4. ASSUME NEW n \in S PROVE n + 1 \in S
  <2>1. SUFFICES ASSUME n + 1 <= m PROVE Earns(g[n + 1], mark)
    BY <1>1
  <2>2. n \in Nat /\ Earns(g[n], mark)
    BY <1>1, <2>1
  <2>3. n + 1 \in 1..m /\ n + 1 # 0 /\ (n + 1) - 1 = n
    BY <1>1, <2>1, <2>2
  <2>4. g[n + 1] = WithRecord(g[n], records[n + 1])
    <3>1. PICK k \in 1..m : k = n + 1 /\ k - 1 = n /\ k # 0
      BY <2>3
    <3>2. g[k] = WithRecord(g[k - 1], records[k])
      BY <1>2, <3>1, TableGoesOn, SMTT(20)
    <3>3. QED
      BY <3>1, <3>2
  <2>5. records[n + 1] = Record(book[n + 1], mark) /\ IsPosition(book[n + 1])
    BY <1>1, <2>3
  <2>6. QED
    BY <2>2, <2>4, <2>5, LotAdds
<1>5. Earns(Totals(records), mark)
  <2>1. S = Nat
    <3>. HIDE DEF S
    <3>1. S \in SUBSET Nat
      BY DEF S
    <3>2. QED
      BY <1>3, <1>4, <3>1, EveryNumber
  <2>2. QED
    BY <1>1, <1>2, <2>1
<1>6. PICK total : total = Totals(records)
  OBVIOUS
<1>7. PICK net : net = NetPosition(records)
  OBVIOUS
<1>8. SUFFICES ASSUME net # Null
               PROVE  net.unrealized = mark * Sign(net.direction) * net.quantity - net.value
  BY <1>7 DEF NetEarnsWhatLotsEarn
<1>9. PICK q \in Int, v \in Int : q = total.quantity /\ v = total.value
  BY <1>5, <1>6 DEF Earns
<1>10. total.unrealized = mark * q - v
  BY <1>5, <1>6, <1>9 DEF Earns
<1>11. net.direction = (IF q > 0 THEN "LONG" ELSE "SHORT") /\ net.quantity = Abs(q)
  BY <1>6, <1>7, <1>8, <1>9 DEF NetPosition, AggregateOneInstrument
<1>12. net.value = v /\ net.unrealized = mark * q - v
  BY <1>6, <1>7, <1>8, <1>9, <1>10 DEF NetPosition, AggregateOneInstrument
<1>13. mark * Sign(net.direction) * net.quantity = mark * q
  <2>1. CASE q > 0
    BY <1>11, <2>1 DEF Sign, Abs
  <2>2. CASE ~(q > 0)
    <3>1. Sign(net.direction) = -1
      BY <1>11, <2>2 DEF Sign
    <3>2. net.quantity = -q
      BY <1>9, <1>11, <2>2 DEF Abs
    <3>3. QED
      BY <1>9, <3>1, <3>2
  <2>3. QED
    BY <2>1, <2>2
<1>14. QED
  BY <1>12, <1>13

-----------------------------------------------------------------------------
LEMMA NullIsNoNumber == Null \notin Int
BY TradeViewsAssumption

LEMMA BookIs ==
    ASSUME NEW book \in Books, NEW mark \in Int,
           NEW records, records = [i \in DOMAIN book |-> Record(book[i], mark)]
    PROVE  NetEarnsWhatLotsEarn(records, mark)
<1>1. book \in Seq(Positions)
  BY FiguresAssumption
<1>2. Len(book) \in Nat /\ DOMAIN book = 1..Len(book) /\ \A i \in 1..Len(book) : book[i] \in Positions
  BY <1>1
<1>3. \A i \in 1..Len(book) : IsPosition(book[i])
  BY <1>2, FiguresAssumption
<1>. DEFINE R == {Record(book[i], mark) : i \in 1..Len(book)}
<1>4. records \in [1..Len(book) -> R]
  BY <1>2
<1>5. records \in Seq(R)
  BY <1>2, <1>4, SeqDef
<1>6. Len(records) = Len(book)
  BY <1>2, <1>4, <1>5, LenProperties
<1>7. QED
  BY <1>2, <1>3, <1>6, NullIsNoNumber, BookAddsUp

LEMMA SampleIsRight ==
    InitFigures => TrailingProposalsHold /\ RecordsReadBack /\ NetPositionsAddUp
<1>. SUFFICES ASSUME InitFigures
              PROVE  TrailingProposalsHold /\ RecordsReadBack /\ NetPositionsAddUp
  OBVIOUS
<1>1. CASE sample \in [kind : {"trail"}, config : Configs, context : Contexts]
  <2>1. sample.kind = "trail" /\ sample.config \in Configs /\ sample.context \in Contexts
    BY <1>1
  <2>2. /\ sample.config \in [strategy : Strategies, size : Int \cup {Null}, lock : Int \cup {Null}]
        /\ sample.context \in [direction : {"LONG", "SHORT"}, entry : Nat, stop : Int, mark : Nat,
                               step : Int \cup {Null}]
    BY <2>1, FiguresAssumption
  <2>3. ProposalHolds(sample.config, sample.context)
    BY <2>2, NullIsNoNumber, ProposalsHold
  <2>4. QED
    BY <2>1, <2>3 DEF TrailingProposalsHold, RecordsReadBack, NetPositionsAddUp
<1>2. CASE sample \in [kind : {"record"}, position : Positions, mark : Marks]
  <2>1. sample.kind = "record" /\ sample.position \in Positions /\ sample.mark \in Marks
    BY <1>2
  <2>2. IsPosition(sample.position) /\ sample.mark \in Int \cup {Null}
    BY <2>1, FiguresAssumption
  <2>3. ArchiveReadsBack(sample.position, sample.mark)
    BY HistoryReadsBack
  <2>4. MarkIsRealized(sample.position, sample.mark)
    <3>1. CASE sample.mark = Null
      BY <3>1 DEF MarkIsRealized
    <3>2. CASE sample.mark \in Int
      BY <2>2, <3>2, NullIsNoNumber, ShownIsBooked DEF IsPosition
    <3>3. QED
      BY <2>2, <3>1, <3>2
  <2>5. QED
    BY <2>1, <2>3, <2>4 DEF TrailingProposalsHold, RecordsReadBack, NetPositionsAddUp
<1>3. CASE sample \in [kind : {"book"}, book : Books, mark : Marks \ {Null}]
  <2>1. sample.kind = "book" /\ sample.book \in Books /\ sample.mark \in Marks \ {Null}
    BY <1>3
  <2>2. sample.mark \in Int
    BY <2>1, FiguresAssumption
  <2>3. PICK records : records = [i \in DOMAIN sample.book |-> Record(sample.book[i], sample.mark)]
    OBVIOUS
  <2>4. NetEarnsWhatLotsEarn(records, sample.mark)
    BY <2>1, <2>2, <2>3, BookIs
  <2>5. QED
    BY <2>1, <2>3, <2>4 DEF TrailingProposalsHold, RecordsReadBack, NetPositionsAddUp
<1>4. QED
  BY <1>1, <1>2, <1>3 DEF InitFigures

(* Whatever trailing configuration is evaluated in whatever context, however *)
(* often a position was sold from, and however many lots an instrument has:  *)
(* a stop that is proposed gives nothing back, the step it is counted from   *)
(* is not ahead of the stop, the archive reads a record back as it was       *)
(* shown, what is shown at a price is what a sale there books, and a net     *)
(* position earns what its lots earn.                                        *)
THEOREM FiguresAlwaysHold == ViewsSpec /\ FiguresSpec => []FiguresHold
<1>. DEFINE Inv == TrailingProposalsHold /\ RecordsReadBack /\ NetPositionsAddUp
<1>1. InitFigures => Inv
  BY SampleIsRight
<1>2. Inv /\ [UNCHANGED sample]_sample => Inv'
  BY DEF TrailingProposalsHold, RecordsReadBack, NetPositionsAddUp
<1>3. FiguresSpec => []Inv
  BY <1>1, <1>2, PTL DEF FiguresSpec
<1>4. Inv /\ StepNeverAhead => FiguresHold
  BY DEF FiguresHold
<1>5. QED
  BY <1>3, <1>4, StepsStayBehind, PTL

=============================================================================
