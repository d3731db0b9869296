--------------------------- MODULE RiskControlsProofs ---------------------------
(* That an emergency stop outlives failures and restarts, that one pass over  *)
(* the positions runs at a time, and that it reaches every position; that a   *)
(* vetted request makes a trade; and that the books of the day count every    *)
(* result once; for any number of calls and trades, and any policy, requests  *)
(* and outcomes.                                                              *)
EXTENDS RiskControls, FiniteSetTheorems, SequenceTheorems, TLAPS

Controls == {"kill", "stop", "cooldown", "day", "policy"}
Stages == {"none", "vetted", "rejected", "queued", "waiting", "entering", "active", "ended"}
Created == {"waiting", "entering", "active", "ended"}
DayPlaces == {"day", "finding", "found", "missing", "dayKept", "dayRead"}

(* A record is no more than its fields. *)
IsCall(k) ==
    k = [op |-> k.op, at |-> k.at, write |-> k.write, trade |-> k.trade, pnl |-> k.pnl,
         status |-> k.status, force |-> k.force, list |-> k.list, existed |-> k.existed,
         until |-> k.until, day |-> k.day, policy |-> k.policy, cooldown |-> k.cooldown]
IsControls(m) ==
    m = [kill |-> m.kill, stop |-> m.stop, cooldown |-> m.cooldown, day |-> m.day,
         policy |-> m.policy]

(* A call that is in the emergency pass, or on its way to it                 *)
Enters(k) ==
    \/ k.at = "killSaved" /\ k.status = "EMERGENCY_STOP"
    \/ k.at \in {"cancelling", "exiting"}

-----------------------------------------------------------------------------
(* What holds of a call `k`, where operators have lowered a control (low),   *)
(* of the cache, the documents and the trades                                *)

(* Only an operator writes that there is no stop; and whoever waits for the  *)
(* stop to be saved goes on when the document has it.                        *)
WritesStop(k, low, docs) ==
    /\ k.write # <<>> => k.write[1] \in Controls
    /\ (k.write # <<>> /\ k.write[1] = "stop") => low \/ k.write[2] = TRUE
    /\ k.at \in {"resetSaved", "deactivated"} => low
    /\ k.at = "stopSaved" => \/ low
                             \/ k.write # <<>> /\ k.write[1] = "stop" /\ k.write[2] = TRUE
                             \/ k.write = <<>> /\ docs.stop = TRUE

(* The trades that a pass has to end were created, and in its last part they *)
(* are ended, or in its list.                                                *)
PassesOver(k, tr) ==
    /\ k.existed \subseteq Trades
    /\ \A t \in k.existed : tr[t] \in Created
    /\ k.at = "exiting" => \A t \in k.existed : tr[t] = "ended" \/ t \in k.list

(* A submission is the only one of its trade, until it has been decided.     *)
Vets(k, tr) ==
    /\ k.op = "submit" => k.trade \in Trades /\ tr[k.trade] = "vetted"
    /\ k.at \in DayPlaces => k.op \in {"outcome", "maintain", "submit"}
    /\ k.at = "expired" => k.op \in {"maintain", "submit"}
    /\ k.at = "gathered" => k.op = "submit"
    /\ k.at = "stopSaved" => k.op # "submit"

CallInv(k, low, mem, docs, tr) ==
    /\ IsCall(k)
    /\ WritesStop(k, low, docs)
    /\ Enters(k) => low \/ mem.kill = "EMERGENCY_STOP"
    /\ PassesOver(k, tr)
    /\ Vets(k, tr)

(* The stop that is known is saved.                                          *)
World ==
    /\ IsControls(memory) /\ IsControls(doc)
    /\ lowered \in BOOLEAN
    /\ memory.stop = TRUE => lowered \/ doc.stop = TRUE
    /\ trade \in [Trades -> Stages]
    /\ call = [c \in Calls |-> call[c]]

OneEnters == lowered \/ \A c, d \in Calls : Enters(call[c]) /\ Enters(call[d]) => c = d
OneVets ==
    \A c, d \in Calls :
        call[c].op = "submit" /\ call[d].op = "submit" /\ call[c].trade = call[d].trade => c = d

IInv ==
    /\ World
    /\ \A c \in Calls : CallInv(call[c], lowered, memory, doc, trade)
    /\ OneEnters
    /\ OneVets

-----------------------------------------------------------------------------
LEMMA Pair ==
    ASSUME NEW a, NEW b
    PROVE  <<a, b>> # <<>> /\ <<a, b>>[1] = a /\ <<a, b>>[2] = b
OBVIOUS

LEMMA IdleIsCall ==
    /\ IsCall(Idle) /\ Idle.at = "idle" /\ Idle.op = "idle" /\ Idle.write = <<>>
    /\ Idle.existed = {} /\ ~Enters(Idle)
BY DEF Idle, IsCall, Enters

LEMMA IdleInv ==
    ASSUME NEW low, NEW mem, NEW docs, NEW tr
    PROVE  CallInv(Idle, low, mem, docs, tr)
BY IdleIsCall DEF CallInv, WritesStop, PassesOver, Vets, DayPlaces

(* What one call does leaves the others alone: a control is lowered for good, *)
(* a stop that was saved stays saved, and so does the kill switch, unless one  *)
(* is lowered; a trade that was created stays so, and what is vetted is left   *)
(* to its submission.                                                          *)
Spares(d) ==
    /\ lowered => lowered'
    /\ doc.stop = TRUE => lowered' \/ doc'.stop = TRUE
    /\ memory.kill = "EMERGENCY_STOP" => lowered' \/ memory'.kill = "EMERGENCY_STOP"
    /\ \A t \in Trades :
         /\ trade[t] \in Created => trade'[t] \in Created
         /\ trade[t] = "ended" => trade'[t] = "ended"
    /\ call[d].op = "submit" => trade'[call[d].trade] = trade[call[d].trade]

LEMMA OthersStay ==
    ASSUME NEW d \in Calls, CallInv(call[d], lowered, memory, doc, trade),
           lowered \in BOOLEAN, lowered' \in BOOLEAN, Spares(d)
    PROVE  CallInv(call[d], lowered', memory', doc', trade')
<1>1. IsCall(call[d])
  BY DEF CallInv
<1>2. WritesStop(call[d], lowered', doc')
  BY DEF CallInv, WritesStop, Spares
<1>3. Enters(call[d]) => lowered' \/ memory'.kill = "EMERGENCY_STOP"
  BY DEF CallInv, Spares
<1>4. PassesOver(call[d], trade')
  BY DEF CallInv, PassesOver, Spares
<1>5. Vets(call[d], trade')
  BY DEF CallInv, Vets, Spares
<1> QED
  BY <1>1, <1>2, <1>3, <1>4, <1>5 DEF CallInv

(* One call goes on as `k`.                                                   *)
LEMMA CallMoves ==
    ASSUME IInv, NEW c \in Calls, NEW k, Goes(c, k), World',
           CallInv(k, lowered', memory', doc', trade'),
           \A d \in Calls : d # c => Spares(d),
           Enters(k) => \/ lowered' \/ Enters(call[c])
                        \/ \A d \in Calls : d # c => ~Enters(call[d]),
           k.op = "submit" => \/ call[c].op = "submit" /\ call[c].trade = k.trade
                              \/ trade[k.trade] # "vetted"
    PROVE  IInv'
<1>1. \A d \in Calls : call'[d] = IF d = c THEN k ELSE call[d]
  BY DEF IInv, World, Goes
<1>2. \A d \in Calls : CallInv(call'[d], lowered', memory', doc', trade')
  <2> SUFFICES ASSUME NEW d \in Calls
               PROVE  CallInv(call'[d], lowered', memory', doc', trade')
    OBVIOUS
  <2>1. CASE d = c
    BY <1>1, <2>1
  <2>2. CASE d # c
    <3>1. CallInv(call[d], lowered', memory', doc', trade')
      BY <2>2, OthersStay DEF IInv, World
    <3> QED
      BY <1>1, <2>2, <3>1
  <2> QED
    BY <2>1, <2>2
<1>3. OneEnters'
  <2> SUFFICES ASSUME ~lowered', NEW d \in Calls, NEW e \in Calls,
                      Enters(call'[d]), Enters(call'[e])
               PROVE  d = e
    BY DEF OneEnters, World
  <2>1. CASE Calls = {c}
    BY <2>1
  <2>2. CASE Calls # {c}
    <3>1. PICK f \in Calls : f # c
      BY <2>2
    <3>2. ~lowered
      BY <3>1 DEF Spares
    <3>3. \A g, h \in Calls : Enters(call[g]) /\ Enters(call[h]) => g = h
      BY <3>2 DEF IInv, OneEnters
    <3> QED
      BY <1>1, <3>3
  <2> QED
    BY <2>1, <2>2
<1>4. OneVets'
  <2> SUFFICES ASSUME NEW d \in Calls, NEW e \in Calls, call'[d].op = "submit",
                      call'[e].op = "submit", call'[d].trade = call'[e].trade
               PROVE  d = e
    BY DEF OneVets
  <2>1. \A f \in Calls : call[f].op = "submit" => trade[call[f].trade] = "vetted"
    BY DEF IInv, CallInv, Vets
  <2> QED
    BY <1>1, <2>1 DEF IInv, OneVets
<1> QED
  BY <1>2, <1>3, <1>4 DEF IInv

(* The switch stays as it is, in memory, and no stop is lifted; one that is    *)
(* set has been saved.                                                         *)
Keeps ==
    /\ IsControls(memory') /\ IsControls(doc')
    /\ memory'.kill = memory.kill /\ doc'.stop = doc.stop
    /\ memory.stop = TRUE => memory'.stop = TRUE
    /\ memory'.stop = TRUE => lowered \/ doc.stop = TRUE

(* The call goes on and changes neither the switch nor a trade.                *)
LEMMA QuietMove ==
    ASSUME IInv, NEW c \in Calls, NEW k, Goes(c, k), UNCHANGED <<lowered, trade>>,
           Keeps,
           CallInv(k, lowered, memory, doc, trade),
           Enters(k) => Enters(call[c]),
           k.op = "submit" => call[c].op = "submit" /\ call[c].trade = k.trade
    PROVE  IInv' /\ KeepsStop
<1>1. World'
  BY DEF IInv, World, Goes, Keeps
<1>2. CallInv(k, lowered', memory', doc', trade')
  BY DEF CallInv, WritesStop, PassesOver, Vets, Keeps
<1>3. \A d \in Calls : Spares(d)
  BY DEF Spares, Keeps
<1>4. IInv'
  BY <1>1, <1>2, <1>3, CallMoves
<1> QED
  BY <1>4 DEF KeepsStop, Keeps

LEMMA NothingChanges ==
    ASSUME IInv, UNCHANGED <<memory, doc>>
    PROVE  Keeps
BY DEF IInv, World, Keeps

(* The same, for a call that returns                                           *)
LEMMA QuietReturn ==
    ASSUME IInv, NEW c \in Calls, Returns(c), UNCHANGED <<lowered, trade>>,
           Keeps
    PROVE  IInv' /\ KeepsStop
<1>1. Idle.op # "submit"
  BY IdleIsCall
<1> QED
  BY <1>1, IdleIsCall, IdleInv, QuietMove DEF Returns

LEMMA SavingFields ==
    ASSUME NEW k, IsCall(k), NEW field, NEW value, NEW at
    PROVE  /\ IsCall(Saving(k, field, value, at))
           /\ Saving(k, field, value, at).op = k.op
           /\ Saving(k, field, value, at).trade = k.trade
           /\ Saving(k, field, value, at).at = at
           /\ Saving(k, field, value, at).write = <<field, value>>
           /\ Saving(k, field, value, at).existed = k.existed
           /\ Saving(k, field, value, at).status = k.status
<1> DEFINE w == <<field, value>>
           i == [k EXCEPT !.write = w]
           j == [i EXCEPT !.at = at]
<1>1. Saving(k, field, value, at) = j
  BY DEF Saving
<1> HIDE DEF w
<1>2. /\ IsCall(i) /\ i.op = k.op /\ i.trade = k.trade /\ i.write = w
      /\ i.existed = k.existed /\ i.status = k.status
  BY DEF IsCall
<1> HIDE DEF i
<1>3. /\ IsCall(j) /\ j.op = i.op /\ j.trade = i.trade /\ j.at = at /\ j.write = i.write
      /\ j.existed = i.existed /\ j.status = i.status
  BY <1>2 DEF IsCall
<1> QED
  BY <1>1, <1>2, <1>3 DEF w

(* The call waits for a save that is not of the stop.                           *)
LEMMA SavingInv ==
    ASSUME NEW low, NEW mem, NEW docs, NEW tr, NEW k, CallInv(k, low, mem, docs, tr),
           NEW field \in Controls \ {"stop"}, NEW value,
           NEW at \in {"cooldownSaved", "dayKept", "recorded", "expired", "policySaved"},
           at = "dayKept" => k.op \in {"outcome", "maintain", "submit"},
           at = "expired" => k.op \in {"maintain", "submit"}
    PROVE  /\ CallInv(Saving(k, field, value, at), low, mem, docs, tr)
           /\ ~Enters(Saving(k, field, value, at))
           /\ Saving(k, field, value, at).op = k.op
           /\ Saving(k, field, value, at).trade = k.trade
<1> DEFINE j == Saving(k, field, value, at)
<1>1. IsCall(j) /\ j.op = k.op /\ j.trade = k.trade /\ j.at = at /\ j.write = <<field, value>>
      /\ j.existed = k.existed
  BY SavingFields DEF CallInv
<1> HIDE DEF j
<1>w. j.write[1] = field /\ field \in Controls /\ field # "stop"
  BY <1>1, Pair
<1>2. WritesStop(j, low, docs)
  BY <1>1, <1>w DEF WritesStop
<1>3. ~Enters(j)
  BY <1>1 DEF Enters
<1>4. PassesOver(j, tr)
  BY <1>1 DEF CallInv, PassesOver
<1>5. Vets(j, tr)
  BY <1>1 DEF CallInv, Vets, DayPlaces
<1> QED
  BY <1>1, <1>2, <1>3, <1>4, <1>5 DEF CallInv, j

(* AfterPass, where nothing else happens                                       *)
LEMMA PassIsOver ==
    ASSUME IInv, NEW c \in Calls, AfterPass(c), UNCHANGED <<lowered, trade>>, Keeps
    PROVE  IInv' /\ KeepsStop
<1>1. CallInv(call[c], lowered, memory, doc, trade)
  BY DEF IInv
<1>2. CASE Returns(c)
  BY <1>1, <1>2, QuietReturn
<1>3. CASE Goes(c, Starting(call[c], memory.policy.cooldownAfterEmergencyExitMs))
  <2> DEFINE until == clock + memory.policy.cooldownAfterEmergencyExitMs
             k == [call[c] EXCEPT !.until = until]
             j == Saving(k, "cooldown", until, "cooldownSaved")
  <2>2. Goes(c, j)
    BY <1>3 DEF Starting
  <2> HIDE DEF until
  <2>4. /\ IsCall(k) /\ k.op = call[c].op /\ k.trade = call[c].trade /\ k.at = call[c].at
        /\ k.write = call[c].write /\ k.existed = call[c].existed /\ k.list = call[c].list
        /\ k.status = call[c].status
    BY <1>1 DEF CallInv, IsCall
  <2> HIDE DEF k
  <2>1. CallInv(k, lowered, memory, doc, trade)
    BY <1>1, <2>4 DEF CallInv, WritesStop, Enters, PassesOver, Vets
  <2>3. CallInv(j, lowered, memory, doc, trade) /\ ~Enters(j) /\ j.op = k.op /\ j.trade = k.trade
    BY <2>1, SavingInv DEF Controls
  <2> HIDE DEF j
  <2> QED
    BY <1>1, <2>2, <2>3, <2>4, QuietMove
<1> QED
  BY <1>2, <1>3 DEF AfterPass

-----------------------------------------------------------------------------
(* The process starts again                                                    *)
LEMMA RestartStep ==
    ASSUME IInv, Restart, UNCHANGED <<lowered, trade>>
    PROVE  IInv' /\ KeepsStop
<1>1. World' /\ memory'.stop = doc.stop /\ doc'.stop = doc.stop
  BY DEF IInv, World, Restart, IsControls
<1>2. \A c \in Calls : call'[c] = Idle
  BY DEF Restart
<1>3. \A c \in Calls : CallInv(call'[c], lowered', memory', doc', trade')
  BY <1>2, IdleInv
<1>4. OneEnters' /\ OneVets'
  BY <1>2, IdleIsCall DEF OneEnters, OneVets
<1> QED
  BY <1>1, <1>3, <1>4 DEF IInv, World, KeepsStop

LEMMA FailStep ==
    ASSUME IInv, NEW c \in Calls, Fail(c)
    PROVE  IInv' /\ KeepsStop
<1>1. UNCHANGED <<lowered, trade>>
  BY DEF Fail
<1>2. CASE Restart
  BY <1>1, <1>2, RestartStep
<1>3. CASE Returns(c) /\ UNCHANGED <<memory, doc>>
  BY <1>1, <1>3, QuietReturn, NothingChanges
<1> QED
  BY <1>2, <1>3 DEF Fail

(* Mongo applies what a call waits for.                                         *)
LEMMA ApplyStep ==
    ASSUME IInv, NEW c \in Calls, Apply(c)
    PROVE  IInv' /\ KeepsStop
<1> DEFINE old == call[c]
           k == [old EXCEPT !.write = <<>>]
<1>1. /\ CallInv(old, lowered, memory, doc, trade)
      /\ old.write # <<>> /\ Goes(c, k) /\ UNCHANGED <<lowered, trade, memory>>
      /\ IsControls(doc) /\ IsControls(memory)
  BY DEF IInv, World, Apply
<1>2. old.write[1] \in Controls
  BY <1>1 DEF CallInv, WritesStop
<1>3. /\ IsControls(doc')
      /\ doc'.stop = IF old.write[1] = "stop" THEN old.write[2] ELSE doc.stop
  BY <1>1, <1>2 DEF Apply, Applied, IsControls, Controls
<1>4. doc.stop = TRUE => lowered \/ doc'.stop = TRUE
  BY <1>1, <1>3 DEF CallInv, WritesStop
<1>5. World'
  BY <1>1, <1>3, <1>4 DEF IInv, World, Goes
<1>6. IsCall(k) /\ k.write = <<>> /\ k.at = old.at /\ k.op = old.op /\ k.trade = old.trade
      /\ k.existed = old.existed /\ k.list = old.list /\ k.status = old.status
  BY <1>1 DEF CallInv, IsCall
<1> HIDE DEF k
<1>7. old.at = "stopSaved" => lowered \/ doc'.stop = TRUE
  BY <1>1, <1>3 DEF CallInv, WritesStop
<1>8. CallInv(k, lowered', memory', doc', trade')
  BY <1>1, <1>6, <1>7 DEF CallInv, WritesStop, Enters, PassesOver, Vets
<1>9. \A d \in Calls : Spares(d)
  BY <1>1, <1>4 DEF Spares
<1>10. IInv'
  BY <1>1, <1>5, <1>6, <1>8, <1>9, CallMoves DEF Enters
<1> QED
  BY <1>1, <1>10 DEF KeepsStop

-----------------------------------------------------------------------------
(* The emergency pass                                                          *)

LEMMA KillSavedStep ==
    ASSUME IInv, NEW c \in Calls, KillSaved(c)
    PROVE  IInv' /\ KeepsStop
<1> DEFINE old == call[c]
           k == [old EXCEPT !.at = "cancelling", !.list = Pending(trade)]
<1>1. /\ UNCHANGED <<lowered, trade, memory, doc>> /\ Keeps
      /\ CallInv(old, lowered, memory, doc, trade) /\ old.at = "killSaved"
  BY NothingChanges DEF KillSaved, Answered, IInv
<1>2. CASE AfterPass(c)
  BY <1>1, <1>2, PassIsOver
<1>3. CASE old.status = "EMERGENCY_STOP" /\ Goes(c, k)
  <2> DEFINE list == Pending(trade)
             i == [old EXCEPT !.at = "cancelling"]
             j == [i EXCEPT !.list = list]
  <2> HIDE DEF list
  <2>1. k = j
    BY DEF list
  <2>2. /\ IsCall(i) /\ i.at = "cancelling" /\ i.write = old.write /\ i.op = old.op
        /\ i.trade = old.trade /\ i.existed = old.existed
    BY <1>1 DEF CallInv, IsCall
  <2> HIDE DEF i
  <2>3. /\ IsCall(j) /\ j.at = i.at /\ j.write = i.write /\ j.op = i.op
        /\ j.trade = i.trade /\ j.existed = i.existed
    BY <2>2 DEF IsCall
  <2> HIDE DEF j, k
  <2>4. CallInv(j, lowered, memory, doc, trade)
    BY <1>1, <1>3, <2>2, <2>3 DEF CallInv, WritesStop, Enters, PassesOver, Vets, DayPlaces
  <2> QED
    BY <1>1, <1>3, <2>1, <2>2, <2>3, <2>4, QuietMove DEF Enters
<1> QED
  BY <1>2, <1>3 DEF KillSaved

LEMMA CancelledStep ==
    ASSUME IInv, NEW c \in Calls, Cancelled(c)
    PROVE  IInv' /\ KeepsStop
<1> DEFINE old == call[c]
           k == [old EXCEPT !.at = "exiting", !.list = Open(trade)]
<1>1. /\ UNCHANGED <<lowered, trade, memory, doc>> /\ Keeps
      /\ CallInv(old, lowered, memory, doc, trade) /\ old.at = "cancelling"
  BY NothingChanges DEF Cancelled, IInv
<1>2. CASE AfterPass(c)
  BY <1>1, <1>2, PassIsOver
<1>3. CASE Goes(c, k)
  <2> DEFINE list == Open(trade)
             i == [old EXCEPT !.at = "exiting"]
             j == [i EXCEPT !.list = list]
  <2>a. \A t \in Trades : trade[t] \in Created => trade[t] = "ended" \/ t \in list
    BY DEF Created, Open
  <2> HIDE DEF list
  <2>1. k = j
    BY DEF list
  <2>2. /\ IsCall(i) /\ i.at = "exiting" /\ i.write = old.write /\ i.op = old.op
        /\ i.trade = old.trade /\ i.existed = old.existed
    BY <1>1 DEF CallInv, IsCall
  <2> HIDE DEF i
  <2>3. /\ IsCall(j) /\ j.at = i.at /\ j.write = i.write /\ j.op = i.op
        /\ j.trade = i.trade /\ j.existed = i.existed /\ j.list = list
    BY <2>2 DEF IsCall
  <2> HIDE DEF j, k
  <2>4. CallInv(j, lowered, memory, doc, trade)
    BY <1>1, <2>a, <2>2, <2>3 DEF CallInv, WritesStop, Enters, PassesOver, Vets, DayPlaces
  <2> QED
    BY <1>1, <1>3, <2>1, <2>2, <2>3, <2>4, QuietMove DEF Enters
<1> QED
  BY <1>2, <1>3 DEF Cancelled

(* The pass ends one trade, or finds that it has ended.                         *)
LEMMA PassStep ==
    ASSUME IInv, NEW c \in Calls, call[c].at \in {"cancelling", "exiting"}, NEW t, NEW list, NEW existed,
           list = call[c].list \ {t}, existed \in {call[c].existed, call[c].existed \ {t}},
           call[c].at = "exiting" => existed = call[c].existed \ {t},
           trade' \in {trade, [trade EXCEPT ![t] = "ended"]},
           trade' # trade => t \in Trades /\ trade[t] \in {"waiting", "entering", "active"},
           NEW k, Goes(c, k), IsCall(k),
           k.at = call[c].at, k.op = call[c].op, k.write = call[c].write, k.trade = call[c].trade,
           k.status = call[c].status, k.list = list, k.existed = existed,
           UNCHANGED <<lowered, memory, doc>>
    PROVE  IInv' /\ KeepsStop
<1>1. CallInv(call[c], lowered, memory, doc, trade)
  BY DEF IInv
<1>2. /\ trade' \in [Trades -> Stages]
      /\ \A u \in Trades : \/ trade'[u] = trade[u]
                           \/ trade[u] \in {"waiting", "entering", "active"} /\ trade'[u] = "ended"
  BY DEF IInv, World, Stages
<1>3. World'
  BY <1>2 DEF IInv, World, Goes
<1>4. \A d \in Calls : Spares(d)
  BY <1>2 DEF IInv, CallInv, Vets, Spares, Created
<1>5. PassesOver(k, trade')
  BY <1>1, <1>2 DEF CallInv, PassesOver, Created
<1>6. CallInv(k, lowered', memory', doc', trade')
  BY <1>1, <1>2, <1>5 DEF CallInv, WritesStop, Enters, Vets
<1>7. IInv'
  BY <1>1, <1>3, <1>4, <1>6, CallMoves DEF Enters
<1> QED
  BY <1>7 DEF KeepsStop

LEMMA CancelOneStep ==
    ASSUME IInv, NEW c \in Calls, CancelOne(c)
    PROVE  IInv' /\ KeepsStop
<1> DEFINE old == call[c]
<1>1. PICK t \in old.list :
        /\ trade' = IF t \in Pending(trade) THEN [trade EXCEPT ![t] = "ended"] ELSE trade
        /\ Goes(c, [old EXCEPT !.list = @ \ {t}])
  BY DEF CancelOne
<1> DEFINE list == old.list \ {t}
           k == [old EXCEPT !.list = list]
<1>2. Goes(c, k)
  BY <1>1
<1>a. IsCall(old)
  BY DEF IInv, CallInv
<1> HIDE DEF list
<1>3. /\ IsCall(k) /\ k.at = old.at /\ k.op = old.op /\ k.write = old.write /\ k.trade = old.trade
      /\ k.status = old.status /\ k.list = list /\ k.existed = old.existed
  BY <1>a DEF IsCall
<1>4. /\ trade' \in {trade, [trade EXCEPT ![t] = "ended"]}
      /\ trade' # trade => t \in Trades /\ trade[t] \in {"waiting", "entering", "active"}
  BY <1>1 DEF Pending
<1>5. old.at = "cancelling" /\ UNCHANGED <<lowered, memory, doc>>
  BY DEF CancelOne
<1>6. list = old.list \ {t}
  BY DEF list
<1> HIDE DEF k
<1> QED
  BY <1>2, <1>3, <1>4, <1>5, <1>6, PassStep

LEMMA ExitOneStep ==
    ASSUME IInv, NEW c \in Calls, ExitOne(c)
    PROVE  IInv' /\ KeepsStop
<1> DEFINE old == call[c]
<1>1. PICK t \in old.list :
        /\ trade' \in {trade} \cup
             (IF trade[t] = "active" THEN {[trade EXCEPT ![t] = "ended"]} ELSE {})
        /\ Goes(c, [old EXCEPT !.list = @ \ {t}, !.existed = @ \ {t}])
  BY DEF ExitOne
<1> DEFINE list == old.list \ {t}
           existed == old.existed \ {t}
           i == [old EXCEPT !.list = list]
           k == [i EXCEPT !.existed = existed]
<1>a. IsCall(old)
  BY DEF IInv, CallInv
<1>2. Goes(c, k)
  <2> DEFINE j == [old EXCEPT !.list = @ \ {t}, !.existed = @ \ {t}]
  <2>1. j = [[old EXCEPT !.list = old.list \ {t}] EXCEPT !.existed = old.existed \ {t}]
    BY <1>a DEF IsCall
  <2>2. Goes(c, j)
    BY <1>1
  <2> HIDE DEF j
  <2> QED
    BY <2>1, <2>2
<1> HIDE DEF list, existed
<1>3. /\ IsCall(i) /\ i.at = old.at /\ i.op = old.op /\ i.write = old.write /\ i.trade = old.trade
      /\ i.status = old.status /\ i.list = list
  BY <1>a DEF IsCall
<1> HIDE DEF i
<1>4. /\ IsCall(k) /\ k.at = i.at /\ k.op = i.op /\ k.write = i.write /\ k.trade = i.trade
      /\ k.status = i.status /\ k.list = i.list /\ k.existed = existed
  BY <1>3 DEF IsCall
<1>5. trade' \in {trade, [trade EXCEPT ![t] = "ended"]}
  BY <1>1
<1>6. trade' # trade => t \in Trades /\ trade[t] \in {"waiting", "entering", "active"}
  BY <1>1 DEF IInv, World
<1>7. old.at = "exiting" /\ UNCHANGED <<lowered, memory, doc>>
  BY DEF ExitOne
<1>8. list = old.list \ {t} /\ existed = old.existed \ {t}
  BY DEF list, existed
<1> HIDE DEF k
<1> QED
  BY <1>2, <1>3, <1>4, <1>5, <1>6, <1>7, <1>8, PassStep

LEMMA PassEndsStep ==
    ASSUME IInv, NEW c \in Calls, PassEnds(c)
    PROVE  IInv' /\ KeepsStop
BY PassIsOver, NothingChanges DEF PassEnds

-----------------------------------------------------------------------------
(* The switches                                                                *)

(* A call begins with a save: it waits at `at`.                                *)
LEMMA Begun ==
    ASSUME NEW k, IsCall(k), k.existed = {}, k.op # "submit",
           NEW field \in Controls, NEW value, NEW low, NEW mem, NEW docs, NEW tr,
           NEW at \in {"stopSaved", "resetSaved", "deactivated", "cooldownSaved", "policySaved"},
           field = "stop" => low \/ value = TRUE,
           at = "stopSaved" => field = "stop" /\ value = TRUE,
           at \in {"resetSaved", "deactivated"} => low
    PROVE  /\ CallInv(Saving(k, field, value, at), low, mem, docs, tr)
           /\ ~Enters(Saving(k, field, value, at))
           /\ Saving(k, field, value, at).op = k.op
<1> DEFINE j == Saving(k, field, value, at)
<1>1. IsCall(j) /\ j.op = k.op /\ j.at = at /\ j.write = <<field, value>> /\ j.existed = {}
  BY SavingFields
<1> HIDE DEF j
<1>2. j.write # <<>> /\ j.write[1] = field /\ j.write[2] = value
  BY <1>1, Pair
<1>3. WritesStop(j, low, docs)
  BY <1>1, <1>2 DEF WritesStop
<1>4. ~Enters(j) /\ PassesOver(j, tr) /\ Vets(j, tr)
  BY <1>1 DEF Enters, PassesOver, Vets, DayPlaces
<1> QED
  BY <1>1, <1>3, <1>4 DEF CallInv, j

LEMMA NamedCall ==
    ASSUME NEW op
    PROVE  /\ IsCall([Idle EXCEPT !.op = op])
           /\ [Idle EXCEPT !.op = op].op = op
           /\ [Idle EXCEPT !.op = op].existed = {}
           /\ [Idle EXCEPT !.op = op].write = <<>>
           /\ [Idle EXCEPT !.op = op].at = "idle"
<1>1. IsCall(Idle)
  BY IdleIsCall
<1>2. /\ IsCall([Idle EXCEPT !.op = op])
      /\ [Idle EXCEPT !.op = op].op = op
      /\ [Idle EXCEPT !.op = op].existed = Idle.existed
      /\ [Idle EXCEPT !.op = op].write = Idle.write
      /\ [Idle EXCEPT !.op = op].at = Idle.at
  BY <1>1 DEF IsCall
<1> QED
  BY <1>2, IdleIsCall

(* The kill switch is set, in memory first: the first to stop everything is    *)
(* the one that passes over the positions.                                     *)
Switches(c, k, m, status, force) ==
    /\ memory.kill # status
    /\ memory' = [m EXCEPT !.kill = status]
    /\ Goes(c, Saving([k EXCEPT !.status = status, !.force = force, !.existed = Open(trade)],
                      "kill", status, "killSaved"))
    /\ m.kill = memory.kill
    /\ m.stop = TRUE => lowered \/ doc.stop = TRUE
    /\ memory.stop = TRUE => m.stop = TRUE
    /\ lowered' \in BOOLEAN /\ (lowered => lowered')
    /\ memory.kill = "EMERGENCY_STOP" => lowered'
    /\ UNCHANGED <<doc, trade>>

LEMMA ActivatingStep ==
    ASSUME IInv, NEW c \in Calls, NEW k, NEW m, NEW status, NEW force,
           Switches(c, k, m, status, force),
           IsCall(k), k.op # "submit", ~Enters(call[c]), IsControls(m)
    PROVE  IInv' /\ KeepsStop
<1> DEFINE open == Open(trade)
           i == [k EXCEPT !.status = status]
           j == [i EXCEPT !.force = force]
           l == [j EXCEPT !.existed = open]
           n == Saving(l, "kill", status, "killSaved")
<1>a. Goes(c, n)
  <2> DEFINE x == [k EXCEPT !.status = status, !.force = force, !.existed = Open(trade)]
  <2>1. x = l
    OBVIOUS
  <2>2. Goes(c, Saving(x, "kill", status, "killSaved"))
    BY DEF Switches
  <2> HIDE DEF x, l
  <2> QED
    BY <2>1, <2>2
<1>b. open \subseteq Trades /\ \A t \in open : trade[t] \in Created
  BY DEF Open, Created
<1> HIDE DEF open
<1>1. IsCall(i) /\ i.op = k.op /\ i.status = status
  BY DEF IsCall
<1> HIDE DEF i
<1>2. IsCall(j) /\ j.op = i.op /\ j.status = i.status
  BY <1>1 DEF IsCall
<1> HIDE DEF j
<1>3. IsCall(l) /\ l.op = j.op /\ l.status = j.status /\ l.existed = open
  BY <1>2 DEF IsCall
<1> HIDE DEF l
<1>4. /\ IsCall(n) /\ n.op = k.op /\ n.at = "killSaved" /\ n.status = status
      /\ n.write = <<"kill", status>> /\ n.existed = open
  BY <1>1, <1>2, <1>3, SavingFields
<1> HIDE DEF n
<1>5. n.write # <<>> /\ n.write[1] = "kill"
  BY <1>4, Pair
<1>6. IsControls(memory') /\ memory'.kill = status /\ memory'.stop = m.stop
  BY DEF IsControls, Switches
<1>7. World'
  BY <1>6 DEF IInv, World, Goes, Switches
<1>8. WritesStop(n, lowered', doc')
  BY <1>4, <1>5 DEF WritesStop, Controls
<1>9. CallInv(n, lowered', memory', doc', trade')
  BY <1>b, <1>4, <1>6, <1>8 DEF CallInv, PassesOver, Vets, Enters, DayPlaces, Switches
<1>10. \A d \in Calls : Spares(d)
  BY <1>6 DEF Spares, Switches
<1>11. Enters(n) => lowered' \/ \A d \in Calls : ~Enters(call[d])
  BY <1>4 DEF Enters, IInv, CallInv, Switches
<1>12. IInv'
  BY <1>a, <1>4, <1>7, <1>9, <1>10, <1>11, CallMoves
<1> QED
  BY <1>6, <1>12 DEF KeepsStop, Switches

LEMMA ActivateStep ==
    ASSUME IInv, NEW c \in Calls, Activate(c)
    PROVE  IInv' /\ KeepsStop
<1>1. PICK status, force :
        /\ Activating(c, [Idle EXCEPT !.op = "activate"], status, force)
        /\ lowered' = (lowered \/ (memory.kill = "EMERGENCY_STOP" /\ status # "EMERGENCY_STOP"))
  BY DEF Activate
<1> DEFINE k == [Idle EXCEPT !.op = "activate"]
<1>2. IsCall(k) /\ k.op # "submit"
  BY NamedCall
<1> HIDE DEF k
<1>3. /\ memory.kill # status /\ memory' = [memory EXCEPT !.kill = status]
      /\ Goes(c, Saving([k EXCEPT !.status = status, !.force = force, !.existed = Open(trade)],
                        "kill", status, "killSaved"))
  BY <1>1 DEF Activating, k
<1>4. ~Enters(call[c]) /\ UNCHANGED <<doc, trade>>
  BY DEF Activate, Free, Enters
<1>5. /\ lowered \in BOOLEAN /\ IsControls(memory)
      /\ memory.stop = TRUE => lowered \/ doc.stop = TRUE
  BY DEF IInv, World
<1>6. /\ lowered' \in BOOLEAN /\ (lowered => lowered')
      /\ memory.kill = "EMERGENCY_STOP" => lowered'
  BY <1>1, <1>3, <1>5
<1>7. memory.stop = TRUE => lowered \/ doc.stop = TRUE
  BY <1>5
<1>8. Switches(c, k, memory, status, force)
  BY <1>3, <1>4, <1>6, <1>7 DEF Switches
<1> QED
  BY <1>2, <1>4, <1>5, <1>8, ActivatingStep

LEMMA StopSavedStep ==
    ASSUME IInv, NEW c \in Calls, StopSaved(c)
    PROVE  IInv' /\ KeepsStop
<1> DEFINE old == call[c]
           yes == TRUE
           m == [memory EXCEPT !.stop = yes]
           emergency == "EMERGENCY_STOP"
           force == memory.policy.killSwitchForceExitsPositions
<1>1. /\ CallInv(old, lowered, memory, doc, trade) /\ IsCall(old)
      /\ lowered \in BOOLEAN /\ IsControls(memory) /\ IsControls(doc)
  BY DEF IInv, World, CallInv
<1>2. old.at = "stopSaved" /\ old.write = <<>> /\ UNCHANGED <<lowered, doc, trade>>
  BY DEF StopSaved, Answered
<1>3. lowered \/ doc.stop = TRUE
  BY <1>1, <1>2 DEF CallInv, WritesStop
<1>4. IsControls(m) /\ m.kill = memory.kill /\ m.stop = TRUE
  <2> HIDE DEF yes
  <2>1. IsControls(m) /\ m.kill = memory.kill /\ m.stop = yes
    BY <1>1 DEF IsControls
  <2> QED
    BY <2>1 DEF yes
<1>5. CASE memory.kill = emergency
  <2>1. memory' = m /\ AfterPass(c)
    BY <1>5 DEF StopSaved
  <2>2. Keeps
    BY <1>1, <1>2, <1>3, <1>4, <2>1 DEF Keeps
  <2> QED
    BY <1>2, <2>1, <2>2, PassIsOver
<1>6. CASE memory.kill # emergency
  <2>1. /\ memory' = [m EXCEPT !.kill = emergency]
        /\ Goes(c, Saving([old EXCEPT !.status = emergency, !.force = force, !.existed = Open(trade)],
                          "kill", emergency, "killSaved"))
    BY <1>6 DEF StopSaved
  <2>2. ~Enters(old)
    BY <1>2 DEF Enters
  <2>3. old.op # "submit"
    BY <1>1, <1>2 DEF CallInv, Vets
  <2>4. Switches(c, old, m, emergency, force)
    BY <1>1, <1>2, <1>3, <1>4, <1>6, <2>1 DEF Switches
  <2> HIDE DEF old, m, force, emergency
  <2> QED
    BY <1>1, <1>4, <2>2, <2>3, <2>4, ActivatingStep DEF old
<1> QED
  BY <1>5, <1>6

(* A control is lowered, or has been.                                          *)
LEMMA LoweredMove ==
    ASSUME IInv, NEW c \in Calls, NEW k, Goes(c, k), lowered' = TRUE,
           IsControls(memory'), UNCHANGED <<doc, trade>>,
           CallInv(k, TRUE, memory, doc, trade), k.op # "submit",
           memory' = memory \/ lowered = TRUE
    PROVE  IInv' /\ KeepsStop
<1>1. World'
  BY DEF IInv, World, Goes
<1>2. CallInv(k, lowered', memory', doc', trade')
  BY DEF CallInv, WritesStop, PassesOver, Vets
<1>3. \A d \in Calls : Spares(d)
  BY DEF Spares
<1>4. IInv'
  BY <1>1, <1>2, <1>3, CallMoves
<1> QED
  BY <1>4 DEF KeepsStop

LEMMA DeactivateStep ==
    ASSUME IInv, NEW c \in Calls, Deactivate(c)
    PROVE  IInv' /\ KeepsStop
<1> DEFINE i == [Idle EXCEPT !.op = "deactivate"]
           k == Saving(i, "kill", "ACTIVE", "deactivated")
<1>1. Goes(c, k) /\ lowered' = TRUE /\ UNCHANGED <<memory, doc, trade>> /\ IsControls(memory')
  BY DEF Deactivate, IInv, World
<1>2. IsCall(i) /\ i.op = "deactivate" /\ i.existed = {}
  BY NamedCall
<1> HIDE DEF i
<1>3. CallInv(k, TRUE, memory, doc, trade) /\ k.op = i.op
  BY <1>2, Begun, ZenonT(30) DEF Controls
<1> HIDE DEF k
<1> QED
  BY <1>1, <1>2, <1>3, LoweredMove

LEMMA ResetStep ==
    ASSUME IInv, NEW c \in Calls, Reset(c)
    PROVE  IInv' /\ KeepsStop
<1> DEFINE i == [Idle EXCEPT !.op = "reset"]
           k == Saving(i, "stop", FALSE, "resetSaved")
<1>1. Goes(c, k) /\ lowered' = TRUE /\ UNCHANGED <<memory, doc, trade>> /\ IsControls(memory')
  BY DEF Reset, IInv, World
<1>2. IsCall(i) /\ i.op = "reset" /\ i.existed = {}
  BY NamedCall
<1> HIDE DEF i
<1>3. CallInv(k, TRUE, memory, doc, trade) /\ k.op = i.op
  BY <1>2, Begun DEF Controls
<1> HIDE DEF k
<1> QED
  BY <1>1, <1>2, <1>3, LoweredMove

(* The control is lowered in memory, too.                                      *)
LEMMA LoweredReturns ==
    ASSUME IInv, NEW c \in Calls, call[c].at \in {"resetSaved", "deactivated"},
           Returns(c), IsControls(memory'), UNCHANGED <<doc, trade, lowered>>
    PROVE  IInv' /\ KeepsStop
<1>1. lowered = TRUE
  BY DEF IInv, World, CallInv, WritesStop
<1>2. Idle.op # "submit" /\ CallInv(Idle, TRUE, memory, doc, trade)
  BY IdleIsCall, IdleInv
<1> QED
  BY <1>1, <1>2, LoweredMove DEF Returns

LEMMA DeactivatedStep ==
    ASSUME IInv, NEW c \in Calls, Deactivated(c)
    PROVE  IInv' /\ KeepsStop
<1>1. IsControls(memory)
  BY DEF IInv, World
<1>2. IsControls(memory')
  BY <1>1 DEF Deactivated, IsControls
<1> QED
  BY <1>2, LoweredReturns DEF Deactivated, Answered

LEMMA ResetSavedStep ==
    ASSUME IInv, NEW c \in Calls, ResetSaved(c)
    PROVE  IInv' /\ KeepsStop
<1>1. IsControls(memory)
  BY DEF IInv, World
<1>2. IsControls(memory')
  BY <1>1 DEF ResetSaved, IsControls
<1> QED
  BY <1>2, LoweredReturns DEF ResetSaved, Answered

LEMMA TriggerStep ==
    ASSUME IInv, NEW c \in Calls, Trigger(c)
    PROVE  IInv' /\ KeepsStop
<1> DEFINE i == [Idle EXCEPT !.op = "trigger"]
           k == Saving(i, "stop", TRUE, "stopSaved")
<1>1. Goes(c, k) /\ UNCHANGED <<memory, doc, trade, lowered>>
  BY DEF Trigger
<1>2. IsCall(i) /\ i.op = "trigger" /\ i.existed = {}
  BY NamedCall
<1> HIDE DEF i
<1>3. CallInv(k, lowered, memory, doc, trade) /\ ~Enters(k) /\ k.op = i.op
  BY <1>2, Begun, ZenonT(30) DEF Controls
<1> HIDE DEF k
<1> QED
  BY <1>1, <1>2, <1>3, QuietMove, NothingChanges

-----------------------------------------------------------------------------
(* The other controls, whose calls keep the switches                           *)

LEMMA StopLossHitStep ==
    ASSUME IInv, NEW c \in Calls, StopLossHit(c)
    PROVE  IInv' /\ KeepsStop
<1> DEFINE o == [Idle EXCEPT !.op = "loss"]
           until == clock + memory.policy.cooldownAfterLossMs
           i == [o EXCEPT !.until = until]
           k == Saving(i, "cooldown", until, "cooldownSaved")
<1>1. Goes(c, k) /\ UNCHANGED <<memory, doc, trade, lowered>>
  BY DEF StopLossHit, Starting
<1>2. IsCall(o) /\ o.op = "loss" /\ o.existed = {}
  BY NamedCall
<1> HIDE DEF o, until
<1>3. IsCall(i) /\ i.op = o.op /\ i.existed = o.existed
  BY <1>2 DEF IsCall
<1> HIDE DEF i
<1>4. CallInv(k, lowered, memory, doc, trade) /\ ~Enters(k) /\ k.op = i.op
  BY <1>2, <1>3, Begun DEF Controls
<1> HIDE DEF k
<1> QED
  BY <1>1, <1>2, <1>3, <1>4, QuietMove, NothingChanges

LEMMA UpdatePolicyStep ==
    ASSUME IInv, NEW c \in Calls, UpdatePolicy(c)
    PROVE  IInv' /\ KeepsStop
<1>1. PICK patch : Goes(c, Saving([Idle EXCEPT !.op = "policy", !.policy = Merged(patch)],
                                  "policy", Merged(patch), "policySaved"))
  BY DEF UpdatePolicy
<1> DEFINE policy == Merged(patch)
           o == [Idle EXCEPT !.op = "policy"]
           i == [o EXCEPT !.policy = policy]
           k == Saving(i, "policy", policy, "policySaved")
<1>a. IsCall(o) /\ o.op = "policy" /\ o.existed = {}
  BY NamedCall
<1>b. [Idle EXCEPT !.op = "policy", !.policy = Merged(patch)] = i
  OBVIOUS
<1>2. Goes(c, k) /\ UNCHANGED <<memory, doc, trade, lowered>>
  BY <1>1, <1>b DEF UpdatePolicy
<1> HIDE DEF o, policy
<1>3. IsCall(i) /\ i.op = o.op /\ i.existed = o.existed
  BY <1>a DEF IsCall
<1> HIDE DEF i
<1>4. CallInv(k, lowered, memory, doc, trade) /\ ~Enters(k) /\ k.op = i.op
  BY <1>a, <1>3, Begun DEF Controls
<1> HIDE DEF k
<1> QED
  BY <1>a, <1>2, <1>3, <1>4, QuietMove, NothingChanges

(* The cache takes a value that is no switch.                                  *)
LEMMA CacheKeeps ==
    ASSUME IInv, UNCHANGED doc, NEW value,
           \/ memory' = [memory EXCEPT !.cooldown = value]
           \/ memory' = [memory EXCEPT !.day = value]
           \/ memory' = [memory EXCEPT !.policy = value]
    PROVE  Keeps
<1>1. IsControls(memory) /\ IsControls(doc) /\ (memory.stop = TRUE => lowered \/ doc.stop = TRUE)
  BY DEF IInv, World
<1>2. IsControls(memory') /\ memory'.kill = memory.kill /\ memory'.stop = memory.stop
  BY <1>1 DEF IsControls
<1> QED
  BY <1>1, <1>2 DEF Keeps

LEMMA SavedStep ==
    ASSUME IInv, NEW c \in Calls, CooldownSaved(c) \/ Recorded(c) \/ PolicySaved(c)
    PROVE  IInv' /\ KeepsStop
<1>1. /\ Returns(c) /\ UNCHANGED <<doc, lowered, trade>>
      /\ \/ memory' = [memory EXCEPT !.cooldown = call[c].until]
         \/ memory' = [memory EXCEPT !.day = call[c].day]
         \/ memory' = [memory EXCEPT !.policy = call[c].policy]
  BY DEF CooldownSaved, Recorded, PolicySaved
<1>2. Keeps
  BY <1>1, CacheKeeps
<1> QED
  BY <1>1, <1>2, QuietReturn

-----------------------------------------------------------------------------
(* The books of the day                                                        *)

(* A call that reads the day goes on with it, to be decided at last.           *)
LEMMA DayMove ==
    ASSUME IInv, NEW c \in Calls, call[c].at \in DayPlaces \cup {"expired"},
           NEW k, Goes(c, k), UNCHANGED <<lowered, trade>>, Keeps,
           IsCall(k), k.op = call[c].op, k.trade = call[c].trade, k.existed = call[c].existed,
           k.write = <<>>, k.at \in DayPlaces \cup {"gathered"},
           k.at \in DayPlaces => call[c].at \in DayPlaces,
           k.at = "gathered" => k.op = "submit"
    PROVE  IInv' /\ KeepsStop
<1>1. CallInv(call[c], lowered, memory, doc, trade)
  BY DEF IInv
<1>2. ~Enters(k)
  BY DEF Enters, DayPlaces
<1>3. CallInv(k, lowered, memory, doc, trade)
  BY <1>1, <1>2 DEF CallInv, WritesStop, PassesOver, Vets, DayPlaces
<1> QED
  BY <1>2, <1>3, QuietMove

(* It waits for a save.                                                        *)
LEMMA DaySave ==
    ASSUME IInv, NEW c \in Calls, NEW field \in {"day", "cooldown"}, NEW value,
           NEW at \in {"dayKept", "recorded", "expired"}, NEW i,
           CallInv(i, lowered, memory, doc, trade), i.op = call[c].op, i.trade = call[c].trade,
           Goes(c, Saving(i, field, value, at)), UNCHANGED <<lowered, trade>>, Keeps,
           at = "dayKept" => i.op \in {"outcome", "maintain", "submit"},
           at = "expired" => i.op \in {"maintain", "submit"}
    PROVE  IInv' /\ KeepsStop
<1> DEFINE k == Saving(i, field, value, at)
<1>1. field \in Controls \ {"stop"}
  BY DEF Controls
<1>2. CallInv(k, lowered, memory, doc, trade) /\ ~Enters(k) /\ k.op = i.op /\ k.trade = i.trade
  BY <1>1, SavingInv
<1>3. Goes(c, k)
  OBVIOUS
<1> HIDE DEF k
<1> QED
  BY <1>2, <1>3, QuietMove

LEMMA ReadStep ==
    ASSUME IInv, NEW c \in Calls, ReadDay(c) \/ FindDay(c) \/ DayKept(c)
    PROVE  IInv' /\ KeepsStop
<1>1. /\ call[c].at \in {"day", "finding", "dayKept"} /\ call[c].write = <<>>
      /\ UNCHANGED <<lowered, trade, memory, doc>>
  BY DEF ReadDay, FindDay, DayKept, Answered
<1>2. Keeps /\ IsCall(call[c])
  BY <1>1, NothingChanges DEF IInv, CallInv
<1>3. \/ Goes(c, [call[c] EXCEPT !.at = "missing"])
      \/ \E at \in {"dayRead", "finding", "found"} : \E day :
           Goes(c, [call[c] EXCEPT !.at = at, !.day = day])
  BY DEF ReadDay, FindDay, DayKept
<1>4. CASE Goes(c, [call[c] EXCEPT !.at = "missing"])
  <2> DEFINE k == [call[c] EXCEPT !.at = "missing"]
  <2>1. IsCall(k) /\ k.op = call[c].op /\ k.trade = call[c].trade /\ k.existed = call[c].existed
        /\ k.write = <<>> /\ k.at = "missing"
    BY <1>1, <1>2 DEF IsCall
  <2>2. Goes(c, k)
    BY <1>4
  <2> HIDE DEF k
  <2> QED
    BY <1>1, <1>2, <2>1, <2>2, DayMove DEF DayPlaces
<1>5. ASSUME NEW at \in {"dayRead", "finding", "found"}, NEW day,
             Goes(c, [call[c] EXCEPT !.at = at, !.day = day])
      PROVE  IInv' /\ KeepsStop
  <2> DEFINE i == [call[c] EXCEPT !.at = at]
             k == [i EXCEPT !.day = day]
  <2>1. Goes(c, k)
    BY <1>5
  <2>2. IsCall(i) /\ i.op = call[c].op /\ i.trade = call[c].trade /\ i.existed = call[c].existed
        /\ i.write = <<>> /\ i.at = at
    BY <1>1, <1>2 DEF IsCall
  <2> HIDE DEF i
  <2>3. IsCall(k) /\ k.op = i.op /\ k.trade = i.trade /\ k.existed = i.existed
        /\ k.write = i.write /\ k.at = i.at
    BY <2>2 DEF IsCall
  <2> HIDE DEF k
  <2> QED
    BY <1>1, <1>2, <2>1, <2>2, <2>3, DayMove DEF DayPlaces
<1> QED
  BY <1>3, <1>4, <1>5

LEMMA FoundStep ==
    ASSUME IInv, NEW c \in Calls, Found(c)
    PROVE  IInv' /\ KeepsStop
<1>1. /\ call[c].at \in {"found", "missing"} /\ call[c].write = <<>>
      /\ UNCHANGED <<lowered, trade, doc>> /\ memory' = [memory EXCEPT !.day = call[c].day]
      /\ CallInv(call[c], lowered, memory, doc, trade)
  BY DEF Found, Answered, IInv
<1>2. Keeps /\ IsCall(call[c]) /\ call[c].op \in {"outcome", "maintain", "submit"}
  BY <1>1, CacheKeeps DEF CallInv, Vets, DayPlaces
<1>3. CASE Goes(c, [call[c] EXCEPT !.at = "dayRead"])
  <2> DEFINE k == [call[c] EXCEPT !.at = "dayRead"]
  <2>1. IsCall(k) /\ k.op = call[c].op /\ k.trade = call[c].trade /\ k.existed = call[c].existed
        /\ k.write = <<>> /\ k.at = "dayRead"
    BY <1>1, <1>2 DEF IsCall
  <2>2. Goes(c, k)
    BY <1>3
  <2> HIDE DEF k
  <2> QED
    BY <1>1, <1>2, <2>1, <2>2, DayMove DEF DayPlaces
<1>4. CASE Goes(c, Saving(call[c], "day", call[c].day, "dayKept"))
  BY <1>1, <1>2, <1>4, DaySave
<1> QED
  BY <1>3, <1>4 DEF Found

LEMMA RecordOutcomeStep ==
    ASSUME IInv, NEW c \in Calls, RecordOutcome(c)
    PROVE  IInv' /\ KeepsStop
<1>1. /\ UNCHANGED <<lowered, trade, memory, doc>>
      /\ CallInv(call[c], lowered, memory, doc, trade)
  BY DEF RecordOutcome, IInv
<1> DEFINE day == With(call[c].day, call[c].pnl)
           i == [call[c] EXCEPT !.day = day]
<1>2. Goes(c, Saving(i, "day", day, "recorded"))
  BY DEF RecordOutcome
<1> HIDE DEF day
<1>3. IsCall(i) /\ i.op = call[c].op /\ i.trade = call[c].trade /\ i.existed = call[c].existed
      /\ i.write = call[c].write /\ i.at = call[c].at /\ i.list = call[c].list
      /\ i.status = call[c].status
  BY <1>1 DEF CallInv, IsCall
<1> HIDE DEF i
<1>4. CallInv(i, lowered, memory, doc, trade)
  BY <1>1, <1>3 DEF CallInv, WritesStop, Enters, PassesOver, Vets
<1> QED
  BY <1>1, <1>2, <1>3, <1>4, NothingChanges, DaySave

LEMMA KnownStep ==
    ASSUME IInv, NEW c \in Calls, NEW active, CooldownKnown(c, active),
           call[c].at \in {"dayRead", "expired"}, call[c].op # "outcome", call[c].write = <<>>,
           UNCHANGED <<lowered, trade>>, Keeps
    PROVE  IInv' /\ KeepsStop
<1>1. CallInv(call[c], lowered, memory, doc, trade) /\ IsCall(call[c])
  BY DEF IInv, CallInv
<1>2. call[c].op \in {"maintain", "submit"}
  BY <1>1 DEF CallInv, Vets, DayPlaces
<1>3. CASE Returns(c)
  BY <1>3, QuietReturn
<1>4. CASE call[c].op # "maintain" /\ Goes(c, [call[c] EXCEPT !.at = "gathered", !.cooldown = active])
  <2> DEFINE i == [call[c] EXCEPT !.at = "gathered"]
             k == [i EXCEPT !.cooldown = active]
  <2>1. Goes(c, k)
    BY <1>4
  <2>2. IsCall(i) /\ i.op = call[c].op /\ i.trade = call[c].trade /\ i.existed = call[c].existed
        /\ i.write = <<>> /\ i.at = "gathered"
    BY <1>1 DEF IsCall
  <2> HIDE DEF i
  <2>3. IsCall(k) /\ k.op = i.op /\ k.trade = i.trade /\ k.existed = i.existed
        /\ k.write = i.write /\ k.at = i.at
    BY <2>2 DEF IsCall
  <2> HIDE DEF k
  <2> QED
    BY <1>2, <1>4, <2>1, <2>2, <2>3, DayMove DEF DayPlaces
<1> QED
  BY <1>3, <1>4 DEF CooldownKnown

LEMMA ExpireStep ==
    ASSUME IInv, NEW c \in Calls, Expire(c)
    PROVE  IInv' /\ KeepsStop
<1>1. /\ UNCHANGED <<lowered, trade, memory, doc>> /\ Keeps
      /\ CallInv(call[c], lowered, memory, doc, trade) /\ IsCall(call[c])
      /\ call[c].at = "dayRead" /\ call[c].op # "outcome" /\ call[c].write = <<>>
  BY NothingChanges DEF Expire, Answered, IInv, CallInv
<1>2. call[c].op \in {"maintain", "submit"}
  BY <1>1 DEF CallInv, Vets, DayPlaces
<1>3. CASE Goes(c, [call[c] EXCEPT !.at = "expired", !.write = <<"cooldown", Never>>])
  <2>1. [call[c] EXCEPT !.at = "expired", !.write = <<"cooldown", Never>>]
          = Saving(call[c], "cooldown", Never, "expired")
    <3> DEFINE w == <<"cooldown", Never>>
    <3> HIDE DEF w
    <3>1. [call[c] EXCEPT !.at = "expired", !.write = w] = [call[c] EXCEPT !.write = w, !.at = "expired"]
      BY <1>1 DEF IsCall
    <3> QED
      BY <3>1 DEF Saving, w
  <2>2. Goes(c, Saving(call[c], "cooldown", Never, "expired"))
    BY <1>3, <2>1
  <2> QED
    BY <1>1, <1>2, <2>2, DaySave
<1>4. CASE CooldownKnown(c, memory.cooldown # Never)
  BY <1>1, <1>4, KnownStep
<1> QED
  BY <1>3, <1>4 DEF Expire

LEMMA ExpiredStep ==
    ASSUME IInv, NEW c \in Calls, Expired(c)
    PROVE  IInv' /\ KeepsStop
<1>1. /\ UNCHANGED <<lowered, trade, doc>> /\ memory' = [memory EXCEPT !.cooldown = Never]
      /\ call[c].at = "expired" /\ call[c].write = <<>> /\ CooldownKnown(c, FALSE)
      /\ CallInv(call[c], lowered, memory, doc, trade)
  BY DEF Expired, Answered, IInv
<1>2. Keeps
  BY <1>1, CacheKeeps
<1>3. call[c].op # "outcome"
  BY <1>1 DEF CallInv, Vets
<1> QED
  BY <1>1, <1>2, <1>3, KnownStep

LEMMA DayBegins ==
    ASSUME IInv, NEW c \in Calls, ApplyOutcome(c) \/ Maintain(c)
    PROVE  IInv' /\ KeepsStop
<1>1. UNCHANGED <<lowered, trade, memory, doc>> /\ Keeps
  BY NothingChanges DEF ApplyOutcome, Maintain
<1>2. \/ Goes(c, [Idle EXCEPT !.op = "maintain", !.at = "day"])
      \/ Goes(c, [Idle EXCEPT !.op = "outcome", !.at = "day", !.pnl = Head(chain)])
  BY DEF ApplyOutcome, Maintain
<1>3. PICK k : /\ Goes(c, k) /\ IsCall(k) /\ k.op \in {"maintain", "outcome"} /\ k.at = "day"
               /\ k.write = Idle.write /\ k.existed = Idle.existed
  <2> DEFINE pnl == Head(chain)
             i == [Idle EXCEPT !.op = "maintain"]
             j == [Idle EXCEPT !.op = "outcome"]
             k == [i EXCEPT !.at = "day"]
             l == [j EXCEPT !.at = "day"]
             m == [l EXCEPT !.pnl = pnl]
  <2> HIDE DEF pnl
  <2>1. Goes(c, k) \/ Goes(c, m)
    BY <1>2 DEF pnl
  <2>2. IsCall(i) /\ i.op = "maintain" /\ i.write = Idle.write /\ i.existed = Idle.existed
    BY NamedCall, IdleIsCall
  <2>3. IsCall(j) /\ j.op = "outcome" /\ j.write = Idle.write /\ j.existed = Idle.existed
    BY NamedCall, IdleIsCall
  <2> HIDE DEF i, j
  <2>4. IsCall(k) /\ k.op = i.op /\ k.at = "day" /\ k.write = i.write /\ k.existed = i.existed
    BY <2>2 DEF IsCall
  <2>5. IsCall(l) /\ l.op = j.op /\ l.at = "day" /\ l.write = j.write /\ l.existed = j.existed
    BY <2>3 DEF IsCall
  <2> HIDE DEF k, l
  <2>6. IsCall(m) /\ m.op = l.op /\ m.at = l.at /\ m.write = l.write /\ m.existed = l.existed
    BY <2>5 DEF IsCall
  <2> HIDE DEF m
  <2> QED
    BY <2>1, <2>2, <2>3, <2>4, <2>5, <2>6
<1>4. ~Enters(k)
  BY <1>3 DEF Enters
<1>5. CallInv(k, lowered, memory, doc, trade)
  BY <1>3, <1>4, IdleIsCall DEF CallInv, WritesStop, PassesOver, Vets, DayPlaces
<1> QED
  BY <1>1, <1>3, <1>4, <1>5, QuietMove

-----------------------------------------------------------------------------
(* Trades, requests and events                                                 *)

(* What is vetted waits for its decision, and what has ended stays so.         *)
TradesGoOn ==
    /\ trade' \in [Trades -> Stages]
    /\ \A t \in Trades :
         \/ trade'[t] = trade[t]
         \/ /\ trade[t] \notin {"vetted", "ended"}
            /\ trade[t] \in Created => trade'[t] \in Created

(* No call goes on.                                                            *)
LEMMA CallsStay ==
    ASSUME IInv, UNCHANGED <<call, lowered, memory, doc>>, TradesGoOn
    PROVE  IInv' /\ KeepsStop
<1>1. \A d \in Calls : Spares(d)
  BY DEF IInv, CallInv, Vets, Spares, Created, TradesGoOn
<1>2. World'
  BY DEF IInv, World, TradesGoOn
<1>3. \A d \in Calls : CallInv(call[d], lowered', memory', doc', trade')
  BY <1>1, OthersStay DEF IInv, World
<1>4. OneEnters' /\ OneVets'
  BY DEF IInv, OneEnters, OneVets
<1> QED
  BY <1>2, <1>3, <1>4 DEF IInv, KeepsStop

LEMMA ProceedStep ==
    ASSUME IInv, NEW t \in Trades, Proceed(t)
    PROVE  IInv' /\ KeepsStop
<1>1. PICK step \in {<<"queued", "waiting">>, <<"waiting", "entering">>,
                     <<"entering", "active">>, <<"active", "ended">>} :
        trade[t] = step[1] /\ trade' = [trade EXCEPT ![t] = step[2]]
  BY DEF Proceed
<1>2. /\ trade[t] \in {"queued", "waiting", "entering", "active"}
      /\ trade'[t] \in Created
      /\ trade' \in [Trades -> Stages]
      /\ \A u \in Trades : u # t => trade'[u] = trade[u]
  BY <1>1 DEF IInv, World, Created, Stages
<1>3. TradesGoOn
  BY <1>2 DEF TradesGoOn, Created
<1> QED
  BY <1>3, CallsStay DEF Proceed

LEMMA DecideStep ==
    ASSUME IInv, NEW c \in Calls, Decide(c)
    PROVE  IInv' /\ KeepsStop
<1> DEFINE t == call[c].trade
<1>1. /\ Goes(c, Idle) /\ UNCHANGED <<lowered, memory, doc>>
      /\ call[c].op = "submit" /\ t \in Trades /\ trade[t] = "vetted"
  BY DEF Decide, Answered, Returns, IInv, CallInv, Vets
<1>2. /\ trade' \in [Trades -> Stages]
      /\ \A u \in Trades : u # t => trade'[u] = trade[u]
  BY <1>1 DEF IInv, World, Decide, Stages
<1>3. \A d \in Calls : call[d].op = "submit" => call[d].trade \in Trades
  BY DEF IInv, CallInv, Vets
<1>4. \A d \in Calls : d # c => Spares(d)
  BY <1>1, <1>2, <1>3 DEF IInv, OneVets, Spares, Created
<1>5. World'
  BY <1>1, <1>2 DEF IInv, World, Goes
<1>6. IInv'
  BY <1>1, <1>4, <1>5, IdleIsCall, IdleInv, CallMoves
<1> QED
  BY <1>1, <1>6 DEF KeepsStop

LEMMA SubmitStep ==
    ASSUME IInv, NEW c \in Calls, Submit(c)
    PROVE  IInv' /\ KeepsStop
<1> DEFINE positions == {Position(u) : u \in Open(trade)}
<1>1. PICK t \in Trades :
        /\ trade[t] = "none"
        /\ \/ /\ trade' = [trade EXCEPT ![t] = "vetted"]
              /\ Goes(c, [Idle EXCEPT !.op = "submit", !.at = "day", !.trade = t, !.list = positions])
           \/ trade' = [trade EXCEPT ![t] = "rejected"] /\ UNCHANGED call
  BY DEF Submit
<1>2. UNCHANGED <<lowered, memory, doc>>
  BY DEF Submit
<1>3. /\ trade' \in [Trades -> Stages]
      /\ \A u \in Trades : u # t => trade'[u] = trade[u]
  BY <1>1 DEF IInv, World, Stages
<1>4. CASE trade' = [trade EXCEPT ![t] = "rejected"] /\ UNCHANGED call
  <2>1. trade'[t] = "rejected"
    BY <1>4 DEF IInv, World
  <2>2. TradesGoOn
    BY <1>1, <1>3, <2>1 DEF TradesGoOn, Created
  <2> QED
    BY <1>2, <1>4, <2>2, CallsStay
<1>5. CASE /\ trade' = [trade EXCEPT ![t] = "vetted"]
           /\ Goes(c, [Idle EXCEPT !.op = "submit", !.at = "day", !.trade = t, !.list = positions])
  <2> DEFINE i == [Idle EXCEPT !.op = "submit"]
             j == [i EXCEPT !.at = "day"]
             k == [j EXCEPT !.trade = t]
             l == [k EXCEPT !.list = positions]
  <2> HIDE DEF positions
  <2>1. Goes(c, l)
    BY <1>5
  <2>2. IsCall(i) /\ i.op = "submit" /\ i.write = <<>> /\ i.existed = {}
    BY NamedCall
  <2> HIDE DEF i
  <2>3. IsCall(j) /\ j.op = i.op /\ j.write = i.write /\ j.existed = i.existed /\ j.at = "day"
    BY <2>2 DEF IsCall
  <2> HIDE DEF j
  <2>4. IsCall(k) /\ k.op = j.op /\ k.write = j.write /\ k.existed = j.existed /\ k.at = j.at
        /\ k.trade = t
    BY <2>3 DEF IsCall
  <2> HIDE DEF k
  <2>5. IsCall(l) /\ l.op = k.op /\ l.write = k.write /\ l.existed = k.existed /\ l.at = k.at
        /\ l.trade = k.trade
    BY <2>4 DEF IsCall
  <2> HIDE DEF l
  <2>6. l.op = "submit" /\ l.write = <<>> /\ l.existed = {} /\ l.at = "day" /\ l.trade = t
    BY <2>2, <2>3, <2>4, <2>5
  <2>7. trade'[t] = "vetted"
    BY <1>5 DEF IInv, World
  <2>8. ~Enters(l)
    BY <2>6 DEF Enters
  <2>9. CallInv(l, lowered', memory', doc', trade')
    BY <2>5, <2>6, <2>7, <2>8 DEF CallInv, WritesStop, PassesOver, Vets, DayPlaces
  <2>10. \A d \in Calls : d # c => Spares(d)
    BY <1>1, <1>2, <1>3 DEF IInv, CallInv, Vets, Spares, Created
  <2>11. World'
    BY <1>2, <1>3, <2>1 DEF IInv, World, Goes
  <2>12. IInv'
    BY <1>1, <2>1, <2>6, <2>8, <2>9, <2>10, <2>11, CallMoves
  <2> QED
    BY <1>2, <2>12 DEF KeepsStop
<1> QED
  BY <1>1, <1>4, <1>5

LEMMA RestStep ==
    ASSUME IInv, UNCHANGED <<call, lowered, memory, doc, trade>>
    PROVE  IInv' /\ KeepsStop
<1>1. TradesGoOn
  BY DEF IInv, World, TradesGoOn
<1> QED
  BY <1>1, CallsStay

-----------------------------------------------------------------------------
LEMMA Initially == ASSUME Init PROVE IInv
<1>1. \A c \in Calls : call[c] = Idle
  BY DEF Init
<1>2. World
  BY DEF Init, World, IsControls, Stages
<1>3. OneEnters /\ OneVets
  BY <1>1, IdleIsCall DEF OneEnters, OneVets
<1> QED
  BY <1>1, <1>2, <1>3, IdleInv DEF IInv

LEMMA StepKeeps ==
    ASSUME IInv, [Next]_vars
    PROVE  IInv' /\ KeepsStop
<1>1. ASSUME NEW c \in Calls, Begin(c)
      PROVE  IInv' /\ KeepsStop
  BY <1>1, ActivateStep, DeactivateStep, TriggerStep, ResetStep, StopLossHitStep, DayBegins,
     UpdatePolicyStep, SubmitStep DEF Begin
<1>2. ASSUME NEW c \in Calls, Continue(c)
      PROVE  IInv' /\ KeepsStop
  BY <1>2, ApplyStep, KillSavedStep, CancelOneStep, CancelledStep, ExitOneStep, PassEndsStep,
     DeactivatedStep, StopSavedStep, ResetSavedStep, SavedStep, ReadStep, FoundStep,
     RecordOutcomeStep, ExpireStep, ExpiredStep, DecideStep DEF Continue
<1>3. ASSUME NEW c \in Calls, Fail(c)
      PROVE  IInv' /\ KeepsStop
  BY <1>3, FailStep
<1>4. ASSUME NEW t \in Trades, Proceed(t)
      PROVE  IInv' /\ KeepsStop
  BY <1>4, ProceedStep
<1>5. CASE Crash
  BY <1>5, RestartStep DEF Crash
<1>6. ASSUME NEW b \in Breakers, BreakerEvent(b)
      PROVE  IInv' /\ KeepsStop
  BY <1>6, RestStep DEF BreakerEvent
<1>7. CASE TradeCompleted \/ Tick \/ UNCHANGED vars
  BY <1>7, RestStep DEF TradeCompleted, Tick, vars
<1> QED
  BY <1>1, <1>2, <1>3, <1>4, <1>5, <1>6, <1>7 DEF Next

(* Whatever operators, failures and restarts do to the controls, the          *)
(* invariant that the other theorems follow from holds.                       *)
THEOREM Inductive == Spec => []IInv
<1>1. Init => IInv
  BY Initially
<1>2. IInv /\ [Next]_vars => IInv'
  BY StepKeeps
<1> QED
  BY <1>1, <1>2, PTL DEF Spec

(* An emergency stop that is known is lifted by operators only: it is saved   *)
(* before it is known (EmergencyStopService.trigger).                         *)
THEOREM StopNotForgotten == Spec => StopIsNotForgotten
<1>1. IInv /\ [Next]_vars => [KeepsStop]_vars
  BY StepKeeps
<1> QED
  BY <1>1, Inductive, PTL DEF Spec, StopIsNotForgotten

(* One pass over the positions runs at a time, however many operators stop    *)
(* everything (KillSwitchService.activate).                                   *)
THEOREM OnePass == Spec => []OneEmergencyPass
<1>1. IInv => OneEmergencyPass
  <2> SUFFICES ASSUME IInv, ~lowered
               PROVE  Cardinality({c \in Calls : InPass(c)}) <= 1
    BY DEF OneEmergencyPass
  <2> DEFINE S == {c \in Calls : InPass(c)}
  <2>1. \A c, d \in S : c = d
    BY DEF IInv, OneEnters, Enters, InPass
  <2>2. CASE S = {}
    BY <2>2, FS_EmptySet
  <2>3. CASE S # {}
    <3>1. PICK c : c \in S
      BY <2>3
    <3>2. S = {c}
      BY <2>1, <3>1
    <3> QED
      BY <3>2, FS_Singleton, SMTT(20)
  <2> QED
    BY <2>2, <2>3
<1> QED
  BY <1>1, Inductive, PTL

(* Where a pass that forces exits ends, every trade that was open when the    *)
(* switch was set has ended or was asked to exit (emergencyExitAll).          *)
THEOREM PassIsComplete == Spec => []PassReachesAll
<1>1. IInv => PassReachesAll
  BY DEF IInv, CallInv, PassesOver, PassReachesAll
<1> QED
  BY <1>1, Inductive, PTL

-----------------------------------------------------------------------------
(* What passes the rules is a definition that the aggregate takes.            *)

LEMMA AllPassed ==
    ASSUME NEW a, NEW b, NEW c, NEW d, FirstFailure(<<a, b, c, d>>) = Passed
    PROVE  a = Passed /\ b = Passed /\ c = Passed /\ d = Passed
<1> DEFINE verdicts == <<a, b, c, d>>
           failures == {i \in 1..4 : verdicts[i] # Passed}
<1>1. DOMAIN verdicts = 1..4
  OBVIOUS
<1>2. FirstFailure(verdicts) = IF failures = {} THEN Passed ELSE verdicts[Min(failures)]
  BY <1>1 DEF FirstFailure
<1>3. failures = {}
  <2> SUFFICES ASSUME failures # {}
               PROVE  FALSE
    OBVIOUS
  <2>1. \E m \in failures : \A i \in failures : m <= i
    <3>1. CASE 1 \in failures
      BY <3>1
    <3>2. CASE 1 \notin failures /\ 2 \in failures
      BY <3>2
    <3>3. CASE 1 \notin failures /\ 2 \notin failures /\ 3 \in failures
      BY <3>3
    <3>4. CASE 1 \notin failures /\ 2 \notin failures /\ 3 \notin failures
      BY <3>4
    <3> QED
      BY <3>1, <3>2, <3>3, <3>4
  <2>2. Min(failures) \in failures
    BY <2>1 DEF Min
  <2> QED
    BY <1>2, <2>2
<1> QED
  BY <1>3

LEMMA WellFormedIsValid ==
    ASSUME NEW r \in Candidates \cup Few, WellFormed(r) = Passed
    PROVE  Agg!ValidDefinition([direction |-> r.direction, quantity |-> r.quantity,
                                stop |-> r.initialStopLoss, trigger |-> r.entryTriggerPrice,
                                targets |-> r.targets])
<1>1. RequiredFields(r) = Passed
  BY DEF WellFormed
<1>2. FirstFailure(<<Quantity(r), EntryPrice(r), StopLoss(r), Target(r)>>) = Passed
  BY DEF WellFormed
<1>3. Quantity(r) = Passed /\ EntryPrice(r) = Passed /\ StopLoss(r) = Passed /\ Target(r) = Passed
  BY <1>2, AllPassed
<1>4. /\ r.direction \in {"LONG", "SHORT"}
      /\ Absent \notin {r.quantity, r.entryTriggerPrice, r.initialStopLoss}
      /\ r.targets # <<>>
  BY <1>1 DEF RequiredFields, Test, Passed
<1>5. /\ r.quantity \in Int /\ r.entryTriggerPrice \in Int /\ r.initialStopLoss \in Int
      /\ r.targets \in Seq(Int)
  BY <1>4, RiskControlsAssumption
<1>6. r.quantity > 0
  BY <1>3 DEF Quantity, Test, Passed
<1>7. r.entryTriggerPrice > 0
  BY <1>3 DEF EntryPrice, Test, Passed
<1>8. /\ r.initialStopLoss > 0
      /\ Beyond(r.direction, r.entryTriggerPrice, r.initialStopLoss)
  BY <1>3 DEF StopLoss, Test, Passed
<1>9. /\ \A i \in DOMAIN r.targets : r.targets[i] > 0
      /\ Beyond(r.direction, r.targets[1], r.entryTriggerPrice)
      /\ \A i \in 2..Len(r.targets) : Beyond(r.direction, r.targets[i], r.targets[i - 1])
  BY <1>3 DEF Target, Test, Passed
<1>10. r.targets \in Seq(Nat \ {0})
  <2>1. Len(r.targets) \in Nat /\ r.targets \in [1..Len(r.targets) -> Int]
    BY <1>5, LenProperties
  <2>2. r.targets \in [1..Len(r.targets) -> Nat \ {0}]
    BY <1>9, <2>1
  <2> QED
    BY <2>1, <2>2, SeqDef
<1>11. \A b, a : Agg!Better(r.direction, b, a) = Beyond(r.direction, b, a)
  BY DEF Agg!Better, Beyond
<1> QED
  BY <1>4, <1>5, <1>6, <1>7, <1>8, <1>9, <1>10, <1>11 DEF Agg!ValidDefinition

(* What was vetted is a request that was well formed.                          *)
VettedInv ==
    /\ request = [t \in Trades |-> request[t]]
    /\ \A t \in Trades : trade[t] \notin {"none", "rejected"} =>
         request[t] \in Candidates \cup Few /\ WellFormed(request[t]) = Passed

LEMMA ValidatedIsWellFormed ==
    ASSUME NEW r, NEW minute, NEW hours, NEW open, NEW today, NEW limits,
           Validate(r, minute, hours, open, today, limits) = Passed
    PROVE  WellFormed(r) = Passed
<1>1. FirstFailure(<<MarketOpen(minute, hours), WellFormed(r),
                     DuplicateTrade(r, open), Risk(r, open, today, limits)>>) = Passed
  BY DEF Validate, Passed
<1> QED
  BY <1>1, AllPassed

(* Nothing else is ever vetted.                                                *)
LEMMA VettedStays ==
    ASSUME VettedInv, UNCHANGED request,
           \A t \in Trades : trade'[t] \notin {"none", "rejected"} => trade[t] \notin {"none", "rejected"}
    PROVE  VettedInv'
BY DEF VettedInv

LEMMA VettedKept ==
    ASSUME IInv, VettedInv, [Next]_vars
    PROVE  VettedInv'
<1>t. trade \in [Trades -> Stages]
  BY DEF IInv, World
<1>1. ASSUME NEW c \in Calls, Begin(c)
      PROVE  VettedInv'
  <2>1. CASE Submit(c)
    <3>1. PICK t \in Trades, r \in Candidates \cup Few :
            /\ trade[t] = "none"
            /\ request' = [request EXCEPT ![t] = r]
            /\ \/ /\ Validate(r, clock, Hours, {Position(u) : u \in Open(trade)}, TodaysTrades, Limits)
                      = Passed
                  /\ trade' = [trade EXCEPT ![t] = "vetted"]
               \/ trade' = [trade EXCEPT ![t] = "rejected"]
      BY <2>1 DEF Submit
    <3>2. trade'[t] = "rejected" \/ WellFormed(r) = Passed
      BY <1>t, <3>1, ValidatedIsWellFormed
    <3>3. request' = [u \in Trades |-> request'[u]] /\ request'[t] = r
      BY <3>1 DEF VettedInv
    <3>4. \A u \in Trades : u # t => request'[u] = request[u] /\ trade'[u] = trade[u]
      BY <1>t, <3>1 DEF VettedInv
    <3> QED
      BY <3>2, <3>3, <3>4 DEF VettedInv
  <2>2. CASE ~Submit(c)
    <3>1. UNCHANGED <<request, trade>>
      BY <1>1, <2>2 DEF Begin, Activate, Deactivate, Trigger, Reset, StopLossHit, ApplyOutcome,
         Maintain, UpdatePolicy
    <3> QED
      BY <3>1, VettedStays
  <2> QED
    BY <2>1, <2>2
<1>2. ASSUME NEW c \in Calls, Continue(c)
      PROVE  VettedInv'
  <2>1. CASE Decide(c)
    <3>1. call[c].trade \in Trades /\ trade[call[c].trade] = "vetted"
      BY <2>1 DEF Decide, Answered, IInv, CallInv, Vets
    <3>2. UNCHANGED request
      BY <2>1 DEF Decide
    <3>3. \A u \in Trades : u # call[c].trade => trade'[u] = trade[u]
      BY <1>t, <2>1 DEF Decide
    <3> QED
      BY <3>1, <3>2, <3>3, VettedStays
  <2>2. CASE CancelOne(c)
    <3>1. PICK t : trade' = IF t \in Pending(trade) THEN [trade EXCEPT ![t] = "ended"] ELSE trade
      BY <2>2 DEF CancelOne
    <3>2. \A u \in Trades : trade'[u] = trade[u] \/ trade[u] \in {"waiting", "entering"}
      BY <1>t, <3>1 DEF Pending
    <3>3. UNCHANGED request
      BY <2>2 DEF CancelOne
    <3> QED
      BY <3>2, <3>3, VettedStays
  <2>3. CASE ExitOne(c)
    <3>1. PICK t : \/ trade' = trade
                   \/ trade[t] = "active" /\ trade' = [trade EXCEPT ![t] = "ended"]
      BY <2>3 DEF ExitOne
    <3>2. \A u \in Trades : trade'[u] = trade[u] \/ trade[u] = "active"
      BY <1>t, <3>1
    <3>3. UNCHANGED request
      BY <2>3 DEF ExitOne
    <3> QED
      BY <3>2, <3>3, VettedStays
  <2>4. CASE ~Decide(c) /\ ~CancelOne(c) /\ ~ExitOne(c)
    <3>1. UNCHANGED <<request, trade>>
      BY <1>2, <2>4 DEF Continue, Apply, KillSaved, Cancelled, PassEnds, Deactivated, StopSaved,
         ResetSaved, CooldownSaved, ReadDay, FindDay, Found, DayKept, RecordOutcome, Recorded,
         Expire, Expired, PolicySaved
    <3> QED
      BY <3>1, VettedStays
  <2> QED
    BY <2>1, <2>2, <2>3, <2>4
<1>3. ASSUME NEW t \in Trades, Proceed(t)
      PROVE  VettedInv'
  <2>1. /\ trade[t] \in {"queued", "waiting", "entering", "active"}
        /\ \A u \in Trades : u # t => trade'[u] = trade[u]
    BY <1>t, <1>3 DEF Proceed
  <2>2. UNCHANGED request
    BY <1>3 DEF Proceed
  <2> QED
    BY <2>1, <2>2, VettedStays
<1>4. CASE \/ \E c \in Calls : Fail(c)
           \/ \E b \in Breakers : BreakerEvent(b)
           \/ TradeCompleted \/ Tick \/ Crash \/ UNCHANGED vars
  <2>1. UNCHANGED <<request, trade>>
    BY <1>4 DEF Fail, BreakerEvent, TradeCompleted, Tick, Crash, vars
  <2> QED
    BY <2>1, VettedStays
<1> QED
  BY <1>1, <1>2, <1>3, <1>4 DEF Next

(* The aggregate takes the definition made of any request that was vetted, and *)
(* so the worker's createTrade does not throw for it: the rules leave nothing  *)
(* for validateTradeDefinition to find.                                        *)
THEOREM VettedIsCreatable == Spec => []AcceptedIsCreatable
<1>1. Init => VettedInv
  BY DEF Init, VettedInv
<1>2. IInv /\ VettedInv /\ [Next]_vars => VettedInv'
  BY VettedKept
<1>3. VettedInv => AcceptedIsCreatable
  <2> SUFFICES ASSUME VettedInv, NEW t \in Trades, trade[t] \notin {"none", "rejected"}
               PROVE  Agg!ValidDefinition([direction |-> request[t].direction,
                                           quantity |-> request[t].quantity,
                                           stop |-> request[t].initialStopLoss,
                                           trigger |-> request[t].entryTriggerPrice,
                                           targets |-> request[t].targets])
    BY DEF AcceptedIsCreatable
  <2> QED
    BY WellFormedIsValid DEF VettedInv
<1> QED
  BY <1>1, <1>2, <1>3, Inductive, PTL DEF Spec

-----------------------------------------------------------------------------
(* The books of the day                                                        *)

Settled == memory.day = told /\ doc.day[0] = told

IsDay(d) == d = [date |-> d.date, count |-> d.count, losses |-> d.losses, pnl |-> d.pnl]

(* A call that has nothing to do with the day's books                          *)
Elsewhere(k) ==
    /\ k.op # "outcome"
    /\ k.at \notin {"finding", "found", "missing", "dayKept", "recorded"}
    /\ k.write # <<>> => k.write[1] # "day"

(* One that records a result: it reads the books that are settled, and writes  *)
(* and keeps them with the result.                                             *)
CountsOnce(k) ==
    /\ k.op = "outcome"
    /\ \/ k.at = "day" /\ k.write = <<>> /\ Settled
       \/ k.at = "dayRead" /\ k.write = <<>> /\ Settled /\ k.day = told
       \/ k.at = "recorded" /\ k.write = <<"day", told>> /\ k.day = told
       \/ k.at = "recorded" /\ k.write = <<>> /\ k.day = told /\ doc.day[0] = told

BooksOfTheDay ==
    /\ memory.day.date = 0 /\ doc.day[0].date = 0 /\ told.date = 0
    /\ IsDay(told) /\ IsDay(doc.day[0])
    /\ \A c \in Calls : Elsewhere(call[c]) \/ CountsOnce(call[c])
    /\ \A c, d \in Calls : ~Elsewhere(call[c]) /\ ~Elsewhere(call[d]) => c = d
    /\ (\A c \in Calls : call[c].op # "outcome") => Settled

BooksInv ==
    /\ clock \in Nat
    /\ 0 \in DOMAIN doc.day /\ doc.day = [d \in DOMAIN doc.day |-> doc.day[d]]
    /\ Today = 0 => BooksOfTheDay

LEMMA FieldsChange ==
    ASSUME NEW k, IsCall(k), NEW a, NEW b
    PROVE  /\ LET j == [k EXCEPT !.write = a] IN j.op = k.op /\ j.at = k.at /\ j.write = a /\ j.day = k.day
           /\ LET j == [k EXCEPT !.list = a] IN j.op = k.op /\ j.at = k.at /\ j.write = k.write
           /\ LET j == [k EXCEPT !.at = a, !.list = b] IN j.op = k.op /\ j.at = a /\ j.write = k.write
           /\ LET j == [k EXCEPT !.list = a, !.existed = b] IN j.op = k.op /\ j.at = k.at /\ j.write = k.write
           /\ LET j == [k EXCEPT !.at = a, !.day = b] IN j.op = k.op /\ j.at = a /\ j.write = k.write /\ j.day = b
           /\ LET j == [k EXCEPT !.at = a, !.write = b] IN j.op = k.op /\ j.at = a /\ j.write = b
           /\ LET j == [k EXCEPT !.at = a, !.cooldown = b] IN j.op = k.op /\ j.at = a /\ j.write = k.write
BY DEF IsCall

(* Two calls for which the books are the same to the others                    *)
LEMMA BooksElsewhere ==
    ASSUME IInv, BooksInv, NEW c \in Calls, NEW k, Goes(c, k), UNCHANGED <<clock, told>>,
           memory'.day = memory.day, doc'.day = doc.day,
           Today = 0 => Elsewhere(call[c]) /\ Elsewhere(k)
    PROVE  BooksInv'
<1>1. \A d \in Calls : call'[d] = IF d = c THEN k ELSE call[d]
  BY DEF IInv, World, Goes
<1>2. Today' = Today /\ clock' \in Nat
  BY DEF Today, BooksInv
<1>3. ASSUME Today = 0
      PROVE  BooksOfTheDay'
  <2>1. Settled' <=> Settled
    BY DEF Settled
  <2>2. \A d \in Calls : d # c => (Elsewhere(call[d])' <=> Elsewhere(call[d]))
                                  /\ (CountsOnce(call[d])' <=> CountsOnce(call[d]))
    BY <1>1, <2>1 DEF CountsOnce, Elsewhere
  <2>3. Elsewhere(call[c])' /\ Elsewhere(call[c])
    BY <1>1, <1>3 DEF Elsewhere
  <2>4. BooksOfTheDay
    BY <1>3 DEF BooksInv
  <2>5. \A d \in Calls : Elsewhere(call[d])' \/ CountsOnce(call[d])'
    BY <2>2, <2>3, <2>4 DEF BooksOfTheDay
  <2>6. \A d, e \in Calls : ~Elsewhere(call[d])' /\ ~Elsewhere(call[e])' => d = e
    BY <2>2, <2>3, <2>4 DEF BooksOfTheDay
  <2>7. (\A d \in Calls : call'[d].op # "outcome") => Settled'
    BY <1>1, <1>3, <2>1, <2>4 DEF BooksOfTheDay, Elsewhere
  <2> QED
    BY <2>4, <2>5, <2>6, <2>7 DEF BooksOfTheDay
<1> QED
  BY <1>2, <1>3 DEF BooksInv

LEMMA Apart ==
    ASSUME BooksInv, Today = 0, NEW c \in Calls,
           call[c].at \notin {"day", "dayRead", "recorded"} \/ call[c].op # "outcome"
    PROVE  Elsewhere(call[c])
BY DEF BooksInv, BooksOfTheDay, CountsOnce

LEMMA IdleIsElsewhere == Elsewhere(Idle)
BY IdleIsCall DEF Elsewhere

LEMMA SavesElsewhere ==
    ASSUME NEW k, IsCall(k), k.op # "outcome", NEW field, field # "day", NEW value,
           NEW at \in {"killSaved", "deactivated", "stopSaved", "resetSaved", "cooldownSaved", "policySaved"}
    PROVE  Elsewhere(Saving(k, field, value, at))
BY SavingFields, Pair DEF Elsewhere

LEMMA FieldsElsewhere ==
    ASSUME NEW k, IsCall(k), Elsewhere(k), NEW a, NEW b,
           NEW at \in {"cancelling", "exiting", "gathered", "dayRead"}
    PROVE  /\ Elsewhere([k EXCEPT !.list = a])
           /\ Elsewhere([k EXCEPT !.list = a, !.existed = b])
           /\ Elsewhere([k EXCEPT !.at = at, !.list = b])
           /\ Elsewhere([k EXCEPT !.at = at, !.day = b])
           /\ Elsewhere([k EXCEPT !.at = at, !.cooldown = b])
BY FieldsChange DEF Elsewhere

LEMMA StillCalls ==
    ASSUME NEW k, IsCall(k), NEW a
    PROVE  /\ IsCall([k EXCEPT !.until = a]) /\ [k EXCEPT !.until = a].op = k.op
           /\ IsCall([k EXCEPT !.policy = a]) /\ [k EXCEPT !.policy = a].op = k.op
BY DEF IsCall

Raised(k, status, force, existed) ==
    [k EXCEPT !.status = status, !.force = force, !.existed = existed]

LEMMA RaisedCall ==
    ASSUME NEW k, IsCall(k), NEW status, NEW force, NEW existed
    PROVE  /\ IsCall(Raised(k, status, force, existed))
           /\ Raised(k, status, force, existed).op = k.op
<1> DEFINE i == [k EXCEPT !.status = status]
           j == [i EXCEPT !.force = force]
           l == [j EXCEPT !.existed = existed]
<1>1. l = Raised(k, status, force, existed)
  BY DEF Raised
<1>2. IsCall(i) /\ i.op = k.op
  BY DEF IsCall
<1> HIDE DEF i
<1>3. IsCall(j) /\ j.op = k.op
  BY <1>2 DEF IsCall
<1> HIDE DEF j
<1>4. IsCall(l) /\ l.op = k.op
  BY <1>3 DEF IsCall
<1> HIDE DEF l
<1> QED
  BY <1>1, <1>4

(* The calls that begin                                                        *)
LEMMA BeginsElsewhere ==
    ASSUME IInv, BooksInv, NEW c \in Calls, Begin(c), ~ApplyOutcome(c)
    PROVE  BooksInv'
<1>1. /\ UNCHANGED <<clock, told, doc>>
      /\ call[c].at = "idle" \/ (UNCHANGED call /\ UNCHANGED memory)
  BY DEF Begin, Activate, Deactivate, Trigger, Reset, StopLossHit, ApplyOutcome, Maintain,
     UpdatePolicy, Submit, Free
<1>2. memory'.day = memory.day
  BY DEF Begin, Activate, Activating, Deactivate, Trigger, Reset, StopLossHit, ApplyOutcome, Maintain,
     UpdatePolicy, Submit, IInv, World, IsControls
<1>3. (\E k : Goes(c, k) /\ Elsewhere(k)) \/ UNCHANGED call
  <2>1. CASE Activate(c)
    <3>1. PICK status, force : Activating(c, [Idle EXCEPT !.op = "activate"], status, force)
      BY <2>1 DEF Activate
    <3> DEFINE i == [Idle EXCEPT !.op = "activate"]
               k == Raised(i, status, force, Open(trade))
    <3>2. Goes(c, Saving(k, "kill", status, "killSaved"))
      BY <3>1 DEF Activating, Raised
    <3>3. IsCall(i) /\ i.op = "activate"
      BY NamedCall
    <3> HIDE DEF i
    <3>5. IsCall(k) /\ k.op = "activate"
      BY <3>3, RaisedCall
    <3> HIDE DEF k
    <3>4. Elsewhere(Saving(k, "kill", status, "killSaved"))
      BY <3>5, SavesElsewhere
    <3> QED
      BY <3>2, <3>4
  <2>2. CASE Deactivate(c)
    <3> DEFINE i == [Idle EXCEPT !.op = "deactivate"]
    <3>1. Goes(c, Saving(i, "kill", "ACTIVE", "deactivated"))
      BY <2>2 DEF Deactivate
    <3>2. IsCall(i) /\ i.op = "deactivate"
      BY NamedCall
    <3> HIDE DEF i
    <3>3. Elsewhere(Saving(i, "kill", "ACTIVE", "deactivated"))
      BY <3>2, SavesElsewhere
    <3> QED
      BY <3>1, <3>3
  <2>3. CASE Trigger(c)
    <3> DEFINE i == [Idle EXCEPT !.op = "trigger"]
    <3>1. Goes(c, Saving(i, "stop", TRUE, "stopSaved"))
      BY <2>3 DEF Trigger
    <3>2. IsCall(i) /\ i.op = "trigger"
      BY NamedCall
    <3> HIDE DEF i
    <3>3. Elsewhere(Saving(i, "stop", TRUE, "stopSaved"))
      BY <3>2, SavesElsewhere
    <3> QED
      BY <3>1, <3>3
  <2>4. CASE Reset(c)
    <3> DEFINE i == [Idle EXCEPT !.op = "reset"]
    <3>1. Goes(c, Saving(i, "stop", FALSE, "resetSaved"))
      BY <2>4 DEF Reset
    <3>2. IsCall(i) /\ i.op = "reset"
      BY NamedCall
    <3> HIDE DEF i
    <3>3. Elsewhere(Saving(i, "stop", FALSE, "resetSaved"))
      BY <3>2, SavesElsewhere
    <3> QED
      BY <3>1, <3>3
  <2>5. CASE StopLossHit(c)
    <3> DEFINE i == [Idle EXCEPT !.op = "loss"]
               until == clock + memory.policy.cooldownAfterLossMs
               k == [i EXCEPT !.until = until]
    <3>1. Goes(c, Saving(k, "cooldown", until, "cooldownSaved"))
      BY <2>5 DEF StopLossHit, Starting
    <3> HIDE DEF until
    <3>2. IsCall(i) /\ i.op = "loss"
      BY NamedCall
    <3> HIDE DEF i
    <3>3. IsCall(k) /\ k.op = "loss"
      BY <3>2, StillCalls
    <3> HIDE DEF k
    <3>4. Elsewhere(Saving(k, "cooldown", until, "cooldownSaved"))
      BY <3>3, SavesElsewhere
    <3> QED
      BY <3>1, <3>4
  <2>6. CASE Maintain(c)
    <3> DEFINE k == [Idle EXCEPT !.op = "maintain", !.at = "day"]
    <3>1. Goes(c, k)
      BY <2>6 DEF Maintain
    <3>2. Elsewhere(k)
      BY DEF Idle, Elsewhere
    <3> QED
      BY <3>1, <3>2
  <2>7. CASE UpdatePolicy(c)
    <3>1. PICK patch : Goes(c, Saving([Idle EXCEPT !.op = "policy", !.policy = Merged(patch)],
                                      "policy", Merged(patch), "policySaved"))
      BY <2>7 DEF UpdatePolicy
    <3> DEFINE new == Merged(patch)
               i == [Idle EXCEPT !.op = "policy"]
               k == [i EXCEPT !.policy = new]
    <3>2. Goes(c, Saving(k, "policy", new, "policySaved"))
      BY <3>1
    <3> HIDE DEF new
    <3>3. IsCall(i) /\ i.op = "policy"
      BY NamedCall
    <3> HIDE DEF i
    <3>4. IsCall(k) /\ k.op = "policy"
      BY <3>3, StillCalls
    <3> HIDE DEF k
    <3>5. Elsewhere(Saving(k, "policy", new, "policySaved"))
      BY <3>4, SavesElsewhere
    <3> QED
      BY <3>2, <3>5
  <2>8. CASE Submit(c)
    <3> DEFINE open == {Position(u) : u \in Open(trade)}
    <3>1. PICK t : \/ UNCHANGED call
                   \/ Goes(c, [Idle EXCEPT !.op = "submit", !.at = "day", !.trade = t, !.list = open])
      BY <2>8 DEF Submit
    <3> HIDE DEF open
    <3>2. Elsewhere([Idle EXCEPT !.op = "submit", !.at = "day", !.trade = t, !.list = open])
      BY DEF Idle, Elsewhere
    <3> QED
      BY <3>1, <3>2
  <2> QED
    BY <2>1, <2>2, <2>3, <2>4, <2>5, <2>6, <2>7, <2>8 DEF Begin
<1>4. CASE UNCHANGED call
  <2>1. Settled' <=> Settled
    BY <1>1, <1>2 DEF Settled
  <2> QED
    BY <1>1, <1>2, <1>4, <2>1 DEF BooksInv, BooksOfTheDay, Elsewhere, CountsOnce, Today
<1>5. CASE ~UNCHANGED call
  <2>1. Today = 0 => Elsewhere(call[c])
    BY <1>1, <1>5, Apart
  <2> QED
    BY <1>1, <1>2, <1>3, <1>5, <2>1, BooksElsewhere
<1> QED
  BY <1>4, <1>5

LEMMA OutcomeBegins ==
    ASSUME IInv, BooksInv, NEW c \in Calls, ApplyOutcome(c)
    PROVE  BooksInv'
<1> DEFINE k == [Idle EXCEPT !.op = "outcome", !.at = "day", !.pnl = Head(chain)]
<1>1. /\ Goes(c, k) /\ UNCHANGED <<clock, told, doc, memory>>
      /\ \A d \in Calls : call[d].op # "outcome"
  BY DEF ApplyOutcome, MayApply
<1>2. k.op = "outcome" /\ k.at = "day" /\ k.write = <<>>
  BY DEF Idle
<1> HIDE DEF k
<1>3. \A d \in Calls : call'[d] = IF d = c THEN k ELSE call[d]
  BY <1>1 DEF IInv, World, Goes
<1>4. ASSUME Today = 0
      PROVE  BooksOfTheDay'
  <2>1. BooksOfTheDay /\ Settled /\ Settled'
    BY <1>1, <1>4 DEF BooksInv, BooksOfTheDay, Settled
  <2>2. \A d \in Calls : Elsewhere(call[d])
    BY <1>1, <2>1 DEF BooksOfTheDay, CountsOnce
  <2>3. \A d \in Calls : d # c => Elsewhere(call[d])'
    BY <1>3, <2>2 DEF Elsewhere
  <2>4. CountsOnce(call[c])'
    BY <1>2, <1>3, <2>1 DEF CountsOnce
  <2> QED
    BY <1>1, <2>1, <2>3, <2>4 DEF BooksOfTheDay
<1> QED
  BY <1>1, <1>4 DEF BooksInv, Today

(* The operators' calls and the passes go on                                   *)
LEMMA ControlsGoOn ==
    ASSUME IInv, BooksInv, NEW c \in Calls,
           \/ KillSaved(c) \/ CancelOne(c) \/ Cancelled(c) \/ ExitOne(c) \/ PassEnds(c)
           \/ Deactivated(c) \/ StopSaved(c) \/ ResetSaved(c) \/ CooldownSaved(c)
           \/ PolicySaved(c) \/ Decide(c)
    PROVE  BooksInv'
<1>1. /\ UNCHANGED <<clock, told, doc>>
      /\ call[c].at \notin {"day", "dayRead", "recorded", "finding", "found", "missing", "dayKept"}
  BY DEF KillSaved, CancelOne, Cancelled, ExitOne, PassEnds, Deactivated, StopSaved, ResetSaved,
     CooldownSaved, PolicySaved, Decide, Answered
<1>2. memory'.day = memory.day
  BY DEF KillSaved, CancelOne, Cancelled, ExitOne, PassEnds, Deactivated, StopSaved, ResetSaved,
     CooldownSaved, PolicySaved, Decide, IInv, World, IsControls
<1>3. IsCall(call[c])
  BY DEF IInv, CallInv
<1>4. AfterPass(c) /\ Today = 0 => \E k : Goes(c, k) /\ Elsewhere(k)
  <2> SUFFICES ASSUME AfterPass(c), Today = 0
               PROVE  \E k : Goes(c, k) /\ Elsewhere(k)
    OBVIOUS
  <2>1. CASE Returns(c)
    BY <2>1, IdleIsElsewhere DEF Returns
  <2>2. CASE Goes(c, Starting(call[c], memory.policy.cooldownAfterEmergencyExitMs))
    <3> DEFINE until == clock + memory.policy.cooldownAfterEmergencyExitMs
               k == [call[c] EXCEPT !.until = until]
    <3>1. Goes(c, Saving(k, "cooldown", until, "cooldownSaved"))
      BY <2>2 DEF Starting
    <3> HIDE DEF until
    <3>2. IsCall(k) /\ k.op = call[c].op
      BY <1>3 DEF IsCall
    <3>3. call[c].op # "outcome"
      BY <1>1, Apart DEF Elsewhere
    <3> HIDE DEF k
    <3> QED
      BY <3>1, <3>2, <3>3, SavesElsewhere
  <2> QED
    BY <2>1, <2>2 DEF AfterPass
<1>5. ASSUME Today = 0
      PROVE  \E k : Goes(c, k) /\ Elsewhere(k)
  <2>e. Elsewhere(call[c])
    BY <1>1, <1>5, Apart
  <2>1. CASE KillSaved(c)
    <3> DEFINE l == Pending(trade)
               k == [call[c] EXCEPT !.at = "cancelling", !.list = l]
    <3>1. Goes(c, k) \/ AfterPass(c)
      BY <2>1 DEF KillSaved
    <3> HIDE DEF l
    <3>2. Elsewhere(k)
      BY <1>3, <2>e, FieldsElsewhere
    <3> HIDE DEF k
    <3> QED
      BY <1>4, <1>5, <3>1, <3>2
  <2>2. CASE CancelOne(c)
    <3>1. PICK t : Goes(c, [call[c] EXCEPT !.list = @ \ {t}])
      BY <2>2 DEF CancelOne
    <3> DEFINE l == call[c].list \ {t}
               k == [call[c] EXCEPT !.list = l]
    <3>2. Goes(c, k)
      BY <3>1
    <3> HIDE DEF l
    <3>3. Elsewhere(k)
      BY <1>3, <2>e, FieldsElsewhere
    <3> HIDE DEF k
    <3> QED
      BY <3>2, <3>3
  <2>3. CASE Cancelled(c)
    <3> DEFINE l == Open(trade)
               k == [call[c] EXCEPT !.at = "exiting", !.list = l]
    <3>1. Goes(c, k) \/ AfterPass(c)
      BY <2>3 DEF Cancelled
    <3> HIDE DEF l
    <3>2. Elsewhere(k)
      BY <1>3, <2>e, FieldsElsewhere
    <3> HIDE DEF k
    <3> QED
      BY <1>4, <1>5, <3>1, <3>2
  <2>4. CASE ExitOne(c)
    <3>1. PICK t : Goes(c, [call[c] EXCEPT !.list = @ \ {t}, !.existed = @ \ {t}])
      BY <2>4 DEF ExitOne
    <3> DEFINE l == call[c].list \ {t}
               e == call[c].existed \ {t}
               k == [call[c] EXCEPT !.list = l, !.existed = e]
    <3>2. Goes(c, k)
      BY <3>1
    <3> HIDE DEF l, e
    <3>3. Elsewhere(k)
      BY <1>3, <2>e, FieldsElsewhere
    <3> HIDE DEF k
    <3> QED
      BY <3>2, <3>3
  <2>5. CASE PassEnds(c)
    BY <1>4, <1>5, <2>5 DEF PassEnds
  <2>6. CASE StopSaved(c)
    <3>1. CASE AfterPass(c)
      BY <1>4, <1>5, <3>1
    <3>2. CASE ~AfterPass(c)
      <4> DEFINE force == memory.policy.killSwitchForceExitsPositions
                 open == Open(trade)
                 k == Raised(call[c], "EMERGENCY_STOP", force, open)
      <4>1. Goes(c, Saving(k, "kill", "EMERGENCY_STOP", "killSaved"))
        BY <2>6, <3>2 DEF StopSaved, Raised
      <4> HIDE DEF force, open
      <4>2. IsCall(k) /\ k.op = call[c].op
        BY <1>3, RaisedCall
      <4> HIDE DEF k
      <4>3. Elsewhere(Saving(k, "kill", "EMERGENCY_STOP", "killSaved"))
        BY <2>e, <4>2, SavesElsewhere DEF Elsewhere
      <4> QED
        BY <4>1, <4>3
    <3> QED
      BY <3>1, <3>2
  <2>7. CASE Deactivated(c) \/ ResetSaved(c) \/ CooldownSaved(c) \/ PolicySaved(c) \/ Decide(c)
    <3>1. Goes(c, Idle)
      BY <2>7 DEF Deactivated, ResetSaved, CooldownSaved, PolicySaved, Decide, Returns
    <3> QED
      BY <3>1, IdleIsElsewhere
  <2> QED
    BY <2>1, <2>2, <2>3, <2>4, <2>5, <2>6, <2>7
<1>6. CASE Today = 0
  BY <1>1, <1>2, <1>5, <1>6, Apart, BooksElsewhere
<1>7. CASE Today # 0
  BY <1>1, <1>2, <1>7 DEF BooksInv, Today
<1> QED
  BY <1>6, <1>7

(* Another day: nothing is claimed                                             *)
LEMMA AnotherDay ==
    ASSUME BooksInv, Today # 0, UNCHANGED clock, doc'.day = doc.day
    PROVE  BooksInv'
BY DEF BooksInv, Today

(* Maintenance and evaluations go on once they have read the day               *)
LEMMA ReadersGoOn ==
    ASSUME IInv, BooksInv, NEW c \in Calls, Expire(c) \/ Expired(c)
    PROVE  BooksInv'
<1>1. /\ UNCHANGED <<clock, told, doc>>
      /\ call[c].at \in {"dayRead", "expired"} /\ call[c].write = <<>>
      /\ call[c].at = "dayRead" => call[c].op # "outcome"
  BY DEF Expire, Expired, Answered
<1>2. memory'.day = memory.day
  BY DEF Expire, Expired, IInv, World, IsControls
<1>3. IsCall(call[c])
  BY DEF IInv, CallInv
<1>4. ASSUME Today = 0
      PROVE  Elsewhere(call[c]) /\ \E k : Goes(c, k) /\ Elsewhere(k)
  <2>e. Elsewhere(call[c])
    BY <1>1, <1>4, Apart
  <2>1. ASSUME NEW active, CooldownKnown(c, active)
        PROVE  \E k : Goes(c, k) /\ Elsewhere(k)
    <3> DEFINE k == [call[c] EXCEPT !.at = "gathered", !.cooldown = active]
    <3>1. Goes(c, k) \/ Goes(c, Idle)
      BY <2>1 DEF CooldownKnown, Returns
    <3>2. Elsewhere(k)
      BY <1>3, <2>e, FieldsElsewhere
    <3> HIDE DEF k
    <3> QED
      BY <3>1, <3>2, IdleIsElsewhere
  <2>2. CASE Expire(c) /\ Due
    <3> DEFINE w == <<"cooldown", Never>>
               k == [call[c] EXCEPT !.at = "expired", !.write = w]
    <3>1. Goes(c, k)
      BY <2>2 DEF Expire
    <3>2. w[1] # "day"
      OBVIOUS
    <3> HIDE DEF w
    <3>3. k.op = call[c].op /\ k.at = "expired" /\ k.write = w
      BY <1>3, FieldsChange
    <3> HIDE DEF k
    <3>4. Elsewhere(k)
      BY <2>e, <3>2, <3>3 DEF Elsewhere
    <3> QED
      BY <2>e, <3>1, <3>4
  <2>3. CASE Expire(c) /\ ~Due
    BY <2>e, <2>1, <2>3 DEF Expire
  <2>4. CASE Expired(c)
    BY <2>e, <2>1, <2>4 DEF Expired
  <2> QED
    BY <2>e, <2>2, <2>3, <2>4
<1>5. CASE Today = 0
  BY <1>1, <1>2, <1>4, <1>5, BooksElsewhere
<1>6. CASE Today # 0
  BY <1>1, <1>6, AnotherDay
<1> QED
  BY <1>5, <1>6

(* A result goes through the places of its call, and all others are elsewhere.  *)
LEMMA OutcomeMoves ==
    ASSUME IInv, BooksInv, NEW c \in Calls, NEW k, Goes(c, k), UNCHANGED clock, Today = 0,
           ~Elsewhere(call[c]), CountsOnce(call[c])', k = call'[c],
           memory'.day.date = 0, doc'.day[0].date = 0, told'.date = 0,
           IsDay(told'), IsDay(doc'.day[0]),
           0 \in DOMAIN doc'.day, doc'.day = [d \in DOMAIN doc'.day |-> doc'.day[d]]
    PROVE  BooksInv'
<1>1. \A d \in Calls : call'[d] = IF d = c THEN k ELSE call[d]
  BY DEF IInv, World, Goes
<1>2. \A d \in Calls : d # c => Elsewhere(call[d])
  BY DEF BooksInv, BooksOfTheDay
<1>3. \A d \in Calls : d # c => Elsewhere(call[d])'
  BY <1>1, <1>2 DEF Elsewhere
<1>4. call'[c].op = "outcome"
  BY DEF CountsOnce
<1>5. BooksOfTheDay'
  BY <1>3, <1>4 DEF BooksOfTheDay
<1> QED
  BY <1>5 DEF BooksInv, Today

LEMMA ReadingGoesOn ==
    ASSUME IInv, BooksInv, NEW c \in Calls, ReadDay(c) \/ FindDay(c) \/ Found(c) \/ DayKept(c)
    PROVE  BooksInv'
<1>1. UNCHANGED <<clock, told, doc>>
  BY DEF ReadDay, FindDay, Found, DayKept
<1>2. CASE Today # 0
  BY <1>1, <1>2, AnotherDay
<1>3. CASE Today = 0
  <2>1. call[c].at \notin {"finding", "found", "missing", "dayKept"} /\ memory.day.date = 0
    BY <1>3 DEF BooksInv, BooksOfTheDay, Elsewhere, CountsOnce
  <2>2. ReadDay(c) /\ UNCHANGED memory
    BY <2>1 DEF ReadDay, FindDay, Found, DayKept, Answered
  <2> DEFINE books == memory.day
             k == [call[c] EXCEPT !.at = "dayRead", !.day = books]
  <2>3. Goes(c, k)
    BY <1>3, <2>1, <2>2 DEF ReadDay
  <2>4. IsCall(call[c]) /\ call[c].at = "day" /\ call[c].write = <<>>
    BY <2>2 DEF ReadDay, Answered, IInv, CallInv
  <2>b. books = memory.day
    OBVIOUS
  <2> HIDE DEF books
  <2>5. k.op = call[c].op /\ k.at = "dayRead" /\ k.write = <<>> /\ k.day = books
    BY <2>4, FieldsChange
  <2>6. Elsewhere(call[c]) => Elsewhere(k)
    BY <2>4, FieldsElsewhere
  <2> HIDE DEF k
  <2>7. CASE Elsewhere(call[c])
    BY <1>1, <2>2, <2>3, <2>6, <2>7, BooksElsewhere
  <2>8. CASE ~Elsewhere(call[c])
    <3>1. CountsOnce(call[c]) /\ Settled
      BY <1>3, <2>4, <2>8 DEF BooksInv, BooksOfTheDay, CountsOnce
    <3>2. call'[c] = k
      BY <2>3 DEF IInv, World, Goes
    <3>3. Settled' /\ books = told'
      BY <1>1, <2>2, <2>b, <3>1 DEF Settled
    <3>4. CountsOnce(call[c])'
      BY <2>5, <3>1, <3>2, <3>3 DEF CountsOnce
    <3> QED
      BY <1>1, <1>3, <2>2, <2>3, <2>8, <3>2, <3>4, OutcomeMoves DEF BooksInv, BooksOfTheDay
  <2> QED
    BY <2>7, <2>8
<1> QED
  BY <1>2, <1>3

LEMMA OutcomeIsRecorded ==
    ASSUME IInv, BooksInv, NEW c \in Calls, RecordOutcome(c)
    PROVE  BooksInv'
<1>1. /\ UNCHANGED <<clock, doc, memory>> /\ IsCall(call[c])
      /\ call[c].at = "dayRead" /\ call[c].write = <<>> /\ call[c].op = "outcome"
  BY DEF RecordOutcome, Answered, IInv, CallInv
<1>2. CASE Today # 0
  BY <1>1, <1>2, AnotherDay
<1>3. CASE Today = 0
  <2>1. BooksOfTheDay /\ ~Elsewhere(call[c])
    BY <1>1, <1>3 DEF BooksInv, Elsewhere
  <2>2. Settled /\ call[c].day = told
    BY <1>1, <2>1 DEF BooksOfTheDay, CountsOnce
  <2>3. told' = With(told, call[c].pnl)
    BY <1>3, <2>1, <2>2 DEF RecordOutcome, BooksOfTheDay
  <2> DEFINE new == With(told, call[c].pnl)
             j == [call[c] EXCEPT !.day = new]
             k == Saving(j, "day", new, "recorded")
  <2>4. Goes(c, k)
    BY <2>2 DEF RecordOutcome
  <2>5. IsDay(new) /\ new.date = 0
    <3> DEFINE n == told.count + 1
               p == told.pnl + call[c].pnl
               l == IF call[c].pnl < 0 THEN told.losses + 1 ELSE 0
    <3>1. new = [told EXCEPT !.count = n, !.pnl = p, !.losses = l]
      BY DEF With
    <3> HIDE DEF n, p, l, new
    <3> QED
      BY <2>1, <3>1 DEF BooksOfTheDay, IsDay
  <2>6. told' = new
    BY <2>3
  <2> HIDE DEF new
  <2>7. IsCall(j) /\ j.op = "outcome" /\ j.day = new
    BY <1>1 DEF IsCall
  <2> HIDE DEF j
  <2>8. k.op = "outcome" /\ k.at = "recorded" /\ k.write = <<"day", new>> /\ k.day = new
    <3>1. k.op = "outcome" /\ k.at = "recorded" /\ k.write = <<"day", new>>
      BY <2>7, SavingFields
    <3>2. k.day = new
      BY <2>7 DEF IsCall, Saving
    <3> QED
      BY <3>1, <3>2
  <2> HIDE DEF k
  <2>9. call'[c] = k
    BY <2>4 DEF IInv, World, Goes
  <2>10. CountsOnce(call[c])'
    BY <2>6, <2>8, <2>9 DEF CountsOnce
  <2> QED
    BY <1>1, <1>3, <2>1, <2>4, <2>5, <2>6, <2>9, <2>10, OutcomeMoves DEF BooksInv, BooksOfTheDay
<1> QED
  BY <1>2, <1>3

LEMMA OutcomeIsKept ==
    ASSUME IInv, BooksInv, NEW c \in Calls, Recorded(c)
    PROVE  BooksInv'
<1>1. /\ UNCHANGED <<clock, doc, told>> /\ Goes(c, Idle)
      /\ call[c].at = "recorded" /\ call[c].write = <<>>
  BY DEF Recorded, Answered, Returns
<1>2. CASE Today # 0
  BY <1>1, <1>2, AnotherDay
<1>3. CASE Today = 0
  <2>1. BooksOfTheDay /\ ~Elsewhere(call[c])
    BY <1>1, <1>3 DEF BooksInv, Elsewhere
  <2>2. call[c].day = told /\ doc.day[0] = told
    BY <1>1, <2>1, Pair, SMTT(20) DEF BooksOfTheDay, CountsOnce
  <2>3. memory'.day = call[c].day
    BY DEF Recorded, IInv, World, IsControls
  <2>4. Settled'
    BY <1>1, <2>2, <2>3 DEF Settled
  <2>5. \A d \in Calls : call'[d] = IF d = c THEN Idle ELSE call[d]
    BY <1>1 DEF IInv, World, Goes
  <2>6. \A d \in Calls : Elsewhere(call[d])'
    BY <2>1, <2>5, IdleIsElsewhere DEF BooksOfTheDay, Elsewhere
  <2>7. BooksOfTheDay'
    BY <1>1, <2>1, <2>2, <2>3, <2>4, <2>6 DEF BooksOfTheDay
  <2> QED
    BY <1>1, <2>7 DEF BooksInv
<1> QED
  BY <1>2, <1>3

LEMMA WriteIsApplied ==
    ASSUME IInv, BooksInv, NEW c \in Calls, Apply(c)
    PROVE  BooksInv'
<1> DEFINE field == call[c].write[1]
           value == call[c].write[2]
           w == <<>>
           k == [call[c] EXCEPT !.write = w]
<1>1. /\ UNCHANGED <<clock, memory, told>> /\ call[c].write # <<>> /\ Goes(c, k)
      /\ doc' = Applied(field, value) /\ IsCall(call[c]) /\ field \in Controls
  BY DEF Apply, IInv, CallInv, WritesStop
<1>w. w = <<>>
  OBVIOUS
<1> HIDE DEF w
<1>2. k.op = call[c].op /\ k.at = call[c].at /\ k.write = <<>> /\ k.day = call[c].day
  BY <1>1, <1>w, FieldsChange
<1> HIDE DEF k
<1>3. Elsewhere(call[c]) => Elsewhere(k)
  BY <1>2 DEF Elsewhere
<1>4. CASE field # "day"
  <2>1. doc'.day = doc.day
    BY <1>1, <1>4 DEF Applied, IInv, World, IsControls, Controls
  <2>2. Today = 0 => Elsewhere(call[c])
    <3>1. ASSUME Today = 0, CountsOnce(call[c])
          PROVE  FALSE
      BY <1>1, <1>4, <3>1, Pair DEF CountsOnce
    <3> QED
      BY <3>1 DEF BooksInv, BooksOfTheDay
  <2> QED
    BY <1>1, <1>3, <2>1, <2>2, BooksElsewhere
<1>5. CASE field = "day"
  <2>1. doc'.day = [doc.day EXCEPT ![value.date] = value]
    BY <1>1, <1>5 DEF Applied, DayAfter, IInv, World, IsControls
  <2>2. /\ DOMAIN doc'.day = DOMAIN doc.day
        /\ doc'.day = [d \in DOMAIN doc'.day |-> doc'.day[d]]
    BY <2>1 DEF BooksInv
  <2>3. CASE Today # 0
    BY <1>1, <2>2, <2>3 DEF BooksInv, Today
  <2>4. CASE Today = 0
    <3>1. BooksOfTheDay /\ ~Elsewhere(call[c])
      BY <1>1, <1>5, <2>4 DEF BooksInv, Elsewhere
    <3>2. /\ CountsOnce(call[c]) /\ call[c].at = "recorded"
          /\ call[c].write = <<"day", told>> /\ call[c].day = told
      BY <1>1, <3>1 DEF BooksOfTheDay, CountsOnce
    <3>3. value = told
      BY <3>2, Pair
    <3>4. doc'.day[0] = told
      BY <2>1, <3>1, <3>3 DEF BooksInv, BooksOfTheDay
    <3>5. call'[c] = k
      BY <1>1 DEF IInv, World, Goes
    <3>6. CountsOnce(call[c])'
      BY <1>1, <1>2, <3>2, <3>4, <3>5 DEF CountsOnce
    <3> QED
      BY <1>1, <2>2, <2>4, <3>1, <3>4, <3>5, <3>6, OutcomeMoves DEF BooksInv, BooksOfTheDay
  <2> QED
    BY <2>3, <2>4
<1> QED
  BY <1>4, <1>5

LEMMA BooksRestart ==
    ASSUME IInv, BooksInv, Restart, UNCHANGED clock
    PROVE  BooksInv'
<1>1. /\ memory'.day = IF doc.day[Today] = NoDay THEN EmptyDay(Today) ELSE doc.day[Today]
      /\ doc'.day = [doc.day EXCEPT ![Today] = memory'.day]
      /\ told' = memory'.day
  BY DEF Restart, IInv, World, IsControls
<1>2. /\ DOMAIN doc'.day = DOMAIN doc.day
      /\ doc'.day = [d \in DOMAIN doc'.day |-> doc'.day[d]]
  BY <1>1 DEF BooksInv
<1>3. \A c \in Calls : call'[c] = Idle
  BY DEF Restart
<1>4. ASSUME Today = 0
      PROVE  BooksOfTheDay'
  <2>1. BooksOfTheDay
    BY <1>4 DEF BooksInv
  <2>2. doc.day[0] # NoDay
    BY <2>1 DEF BooksOfTheDay, NoDay
  <2>3. memory'.day = doc.day[0] /\ doc'.day[0] = doc.day[0] /\ told' = doc.day[0]
    BY <1>1, <1>4, <2>2 DEF BooksInv
  <2>4. Settled'
    BY <2>3 DEF Settled
  <2>5. \A c \in Calls : Elsewhere(call[c])'
    BY <1>3, IdleIsElsewhere DEF Elsewhere
  <2> QED
    BY <2>1, <2>3, <2>4, <2>5 DEF BooksOfTheDay
<1> QED
  BY <1>2, <1>4 DEF BooksInv, Today

LEMMA BooksFail ==
    ASSUME IInv, BooksInv, NEW c \in Calls, Fail(c)
    PROVE  BooksInv'
<1>1. UNCHANGED clock
  BY DEF Fail
<1>2. CASE Restart
  BY <1>1, <1>2, BooksRestart
<1>3. CASE ~Restart
  <2>1. /\ call[c].op # "outcome" /\ Goes(c, Idle) /\ UNCHANGED <<memory, doc, told>>
    BY <1>3 DEF Fail, Returns
  <2>2. Today = 0 => Elsewhere(call[c])
    BY <2>1, Apart
  <2> QED
    BY <1>1, <2>1, <2>2, IdleIsElsewhere, BooksElsewhere
<1> QED
  BY <1>2, <1>3

LEMMA DaysGoOn ==
    ASSUME NEW time \in Nat, (time + 1) \div DayLength = 0
    PROVE  time \div DayLength = 0
BY RiskControlsAssumption

LEMMA BooksTick ==
    ASSUME IInv, BooksInv, Tick
    PROVE  BooksInv'
<1>1. /\ clock' = clock + 1 /\ clock' \in Nat /\ UNCHANGED <<memory, doc, call>>
      /\ told' = IF Today' # Today THEN EmptyDay(Today') ELSE told
  BY DEF Tick, BooksInv
<1>2. ASSUME Today' = 0
      PROVE  BooksOfTheDay'
  <2>1. Today = 0
    <3>1. (clock + 1) \div DayLength = 0
      BY <1>1, <1>2 DEF Today
    <3> QED
      BY <3>1, DaysGoOn DEF BooksInv, Today
  <2>2. BooksOfTheDay /\ told' = told
    BY <1>1, <1>2, <2>1 DEF BooksInv
  <2> QED
    BY <1>1, <2>2 DEF BooksOfTheDay, Elsewhere, CountsOnce, Settled
<1> QED
  BY <1>1, <1>2 DEF BooksInv

LEMMA BooksKept ==
    ASSUME IInv, BooksInv, [Next]_vars
    PROVE  BooksInv'
<1>1. ASSUME NEW c \in Calls, Begin(c)
      PROVE  BooksInv'
  BY <1>1, BeginsElsewhere, OutcomeBegins
<1>2. ASSUME NEW c \in Calls, Continue(c)
      PROVE  BooksInv'
  BY <1>2, WriteIsApplied, ControlsGoOn, ReadingGoesOn, OutcomeIsRecorded, OutcomeIsKept,
     ReadersGoOn DEF Continue
<1>3. ASSUME NEW c \in Calls, Fail(c)
      PROVE  BooksInv'
  BY <1>3, BooksFail
<1>4. CASE \/ \E t \in Trades : Proceed(t)
           \/ \E b \in Breakers : BreakerEvent(b)
           \/ TradeCompleted \/ UNCHANGED vars
  <2>1. UNCHANGED <<clock, memory, doc, call, told>>
    BY <1>4 DEF Proceed, BreakerEvent, TradeCompleted, vars
  <2> QED
    BY <2>1 DEF BooksInv, BooksOfTheDay, Elsewhere, CountsOnce, Settled, Today
<1>5. CASE Crash
  BY <1>5, BooksRestart DEF Crash
<1>6. CASE Tick
  BY <1>6, BooksTick
<1> QED
  BY <1>1, <1>2, <1>3, <1>4, <1>5, <1>6 DEF Next

LEMMA BooksInitially == ASSUME Init PROVE BooksInv
<1>1. /\ clock = 0 /\ told = EmptyDay(0) /\ memory.day = EmptyDay(0)
      /\ doc.day = [d \in 0..(MaxTime \div DayLength) |-> IF d = 0 THEN EmptyDay(0) ELSE NoDay]
      /\ \A c \in Calls : call[c] = Idle
  BY DEF Init
<1>2. 0 \in 0..(MaxTime \div DayLength)
  BY RiskControlsAssumption
<1>3. doc.day[0] = EmptyDay(0)
  BY <1>1, <1>2
<1>4. EmptyDay(0).date = 0 /\ IsDay(EmptyDay(0))
  BY DEF EmptyDay, IsDay
<1>5. Settled /\ \A c \in Calls : Elsewhere(call[c])
  BY <1>1, <1>3, IdleIsElsewhere DEF Settled
<1>6. BooksOfTheDay
  BY <1>1, <1>3, <1>4, <1>5 DEF BooksOfTheDay
<1> QED
  BY <1>1, <1>2, <1>6 DEF BooksInv

(* On the day the services were started, the books count every result once,    *)
(* however its handlers, maintenance, evaluations, failed writes and restarts   *)
(* meet (recordTradeOutcome).                                                   *)
THEOREM BooksAreRight == Spec => []OutcomesCounted
<1>1. Init => BooksInv
  BY BooksInitially
<1>2. IInv /\ BooksInv /\ [Next]_vars => BooksInv'
  BY BooksKept
<1>3. BooksInv => OutcomesCounted
  BY DEF BooksInv, BooksOfTheDay, OutcomesCounted, Settled
<1> QED
  BY <1>1, <1>2, <1>3, Inductive, PTL DEF Spec
=============================================================================
