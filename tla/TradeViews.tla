------------------------------ MODULE TradeViews ------------------------------
(***************************************************************************)
(* trade-lifecycle around the Trading Engine: the extension rows it keeps  *)
(* beside the trades, TrailingManager, ExitManager, PositionManager's      *)
(* cache, the archive TradeLifecycleService writes when a trade ends, and  *)
(* the CleanupJob that evicts what has ended.                              *)
(*                                                                         *)
(* The engine's own interleavings are TradeEngine's subject: here its      *)
(* steps are the Trade commands, and an exit order is answered at any      *)
(* later time.  Every database call is asynchronous.  A save that fails is *)
(* modelled where the code handles it, in the archive.  The retention time *)
(* (24 h) outlasts every call: a trade is only evicted once no call about  *)
(* it is under way.                                                        *)
(***************************************************************************)
EXTENDS TradeFigures

CONSTANTS
    ViewedTrades,  \* trade ids
    Definitions,   \* trade |-> its definition, with the trailingConfig its owner asked for
    Prices,        \* market prices, of the one instrument
    Readers,       \* requests that read positions, each running one at a time
    ViewScenarios, \* sets of what else happens: "read", "exit", "trail", "lossy"
    AskedExits,    \* reasons with which an exit is asked for
    MaxPrices      \* bound on the market prices

ASSUME TradeViewsAssumption ==
    /\ MaxPrices \in Nat
    /\ Prices \subseteq Nat \ {0}
    /\ AskedExits \subseteq ExitReasons
    /\ \A t \in ViewedTrades :
         /\ ValidDefinition(Definitions[t])
         /\ Definitions[t].trailing \in
              [strategy : Strategies, size : Int \cup {Null}, lock : Int \cup {Null}] \cup {Null}
         /\ Null \notin TradeRecord(Definitions[t], Int)
    /\ Null \notin Int \cup TradeState
    /\ Null \notin [status : TradeState, stop : Int, reason : ExitReasons \cup {Null},
                   stage : TradeLifecycleStage, trailing : BOOLEAN]

VARIABLES
    viewScenario, \* the scenario
    engine,     \* TradingEngineService.trades; Null once evicted
    extension,  \* the extension rows
    known,      \* TrailingManager.extensionCache
    patches,    \* TradeExtensionStore.patch calls under way
    ticks,      \* TrailingManager.evaluate calls waiting for an extension
    cache,      \* PositionManager.cache
    reader,     \* the requests under way
    archive,    \* TradeLifecycleService.archive calls under way
    history,    \* the trade history collection
    queued,     \* the trades with a StopLossHit that is not published yet
    ended,      \* how each trade ended, and whether saving that failed
    prices      \* market prices so far

viewVars == <<viewScenario, engine, extension, known, patches, ticks, cache, reader, archive, history,
              queued, ended, prices>>

DefaultExtension == [reason |-> Null, config |-> Null, step |-> Null]

Quiet == [pc |-> "idle", trades |-> {}, snapshots |-> <<>>]

Waiting(t) == Arm(New(Definitions[t])).trade

InitViews ==
    /\ viewScenario \in ViewScenarios
    /\ engine = [t \in ViewedTrades |-> Waiting(t)]
    /\ extension = [t \in ViewedTrades |-> DefaultExtension]
    /\ known = [t \in ViewedTrades |-> Null]
    /\ patches = {}
    /\ ticks = {}
    /\ cache = [t \in ViewedTrades |-> Null]
    /\ reader = [r \in Readers |-> Quiet]
    /\ archive = [t \in ViewedTrades |-> Null]
    /\ history = [t \in ViewedTrades |-> Null]
    /\ ended = [t \in ViewedTrades |-> [state |-> Null, lost |-> FALSE]]
    /\ queued = {}
    /\ prices = 0

Held == {t \in ViewedTrades : engine[t] # Null}
Over(t) == engine[t].state \in Terminal

(* composeTradeRecord, as far as the views differ in it *)
View(t, tr, ext) ==
    [status |-> tr.state, stop |-> tr.stop, reason |-> ext.reason,
     stage |-> Stage(Definitions[t], tr, ext.reason), trailing |-> ext.config # Null]

-----------------------------------------------------------------------------
(* An event that names a trade reaches PositionManager and TrailingManager  *)
Invalidate(t) ==
    /\ cache' = [cache EXCEPT ![t] = Null]
    /\ known' = [known EXCEPT ![t] = Null]

Patch(by, t, field, value) ==
    [by |-> by, trade |-> t, field |-> field, value |-> value, row |-> Null]

(* publishDomainEvents, when the trade has any: a StopLossHit among them    *)
(* has ExitManager patch the reason in.                                     *)
Attributed(t, stops) ==
    IF t \in stops THEN {Patch("stop", t, "reason", "STOPLOSS")} ELSE {}

Publish(t, stops) ==
    /\ Invalidate(t)
    /\ queued' = stops \ {t}

(* A terminal event starts TradeLifecycleService.archive, which takes the   *)
(* snapshot at once and then waits for the extension.                       *)
Mutant_CancelledIsNotTerminal(t, tr) ==
    /\ archive' = IF tr.state = "CANCELLED" THEN archive ELSE [archive EXCEPT ![t] = tr]
    /\ ended' = [ended EXCEPT ![t].state = tr.state]

Ends(t, tr) ==
    /\ archive' = [archive EXCEPT ![t] = tr]
    /\ ended' = [ended EXCEPT ![t].state = tr.state]

(* The entry fills: EntryTriggered, EntryFilled, PositionOpened *)
EntryFilled(t) ==
    /\ t \in Held /\ engine[t].state = "WAITING_ENTRY"
    /\ LET def == Definitions[t]
           answer == [status |-> "FILLED", price |-> def.trigger, quantity |-> def.quantity]
       IN  engine' = [engine EXCEPT ![t] =
             ApplyEntryOrderResponse(def, TriggerEntry(engine[t]).trade, answer).trade]
    /\ Invalidate(t)
    /\ UNCHANGED <<viewScenario, queued, extension, patches, ticks, reader, archive, history,
                   ended, prices>>

CancelTrade(t) ==
    /\ t \in Held /\ engine[t].state = "WAITING_ENTRY"
    /\ engine' = [engine EXCEPT ![t] = Cancel(engine[t]).trade]
    /\ Ends(t, engine'[t])
    /\ Invalidate(t)
    /\ UNCHANGED <<viewScenario, queued, extension, patches, ticks, reader, history, prices>>

(* PaperTradeEventListener.onOrderSubmitted: the configuration the owner    *)
(* asked for is patched in, two calls after the trade exists.               *)
ApplyTrailing(t) ==
    /\ "trail" \in viewScenario
    /\ extension[t].config = Null
    /\ \A p \in patches : p.trade = t => p.by # "owner"
    /\ patches' = patches \cup {Patch("owner", t, "config", Definitions[t].trailing)}
    /\ UNCHANGED <<viewScenario, engine, queued, extension, known, ticks, cache, reader,
                   archive, history, ended, prices>>

-----------------------------------------------------------------------------
(* TrailingManager.evaluate once it has the extension: the trade it looks   *)
(* at is the snapshot its tick took.                                        *)
Context(tick, ext) ==
    [direction |-> Definitions[tick.trade].direction, entry |-> tick.snapshot.fillPrice,
     stop |-> tick.snapshot.stop, mark |-> tick.price, step |-> ext.step]

Proposed(tick, ext) ==
    IF ext.config = Null THEN NoProposal ELSE Compute(ext.config, Context(tick, ext))

Moved(tick, ext, tr) ==
    IF Proposed(tick, ext) = NoProposal THEN tr
    ELSE MoveStopLoss(Definitions[tick.trade], tr, Proposed(tick, ext).stop)

(* The new step is saved if the stop is no longer the snapshot's *)
StepPatch(tick, ext, tr) ==
    LET proposal == Proposed(tick, ext)
    IN  IF proposal.step = Null \/ tr.stop = tick.snapshot.stop THEN {}
        ELSE {Patch("step", tick.trade, "step", proposal.step)}

Evaluate(tick) ==
    LET t == tick.trade
        ext == extension[t]
        moved == IF engine[t] = Null THEN Null ELSE Moved(tick, ext, engine[t])
    IN  /\ tick \in ticks
        /\ ticks' = ticks \ {tick}
        /\ engine' = [engine EXCEPT ![t] = moved]
        /\ patches' = patches \cup (IF moved # engine[t] THEN Attributed(t, queued) ELSE {})
                              \cup (IF moved = Null THEN {} ELSE StepPatch(tick, ext, moved))
        /\ IF moved # engine[t] THEN Publish(t, queued)
           ELSE known' = [known EXCEPT ![t] = ext] /\ UNCHANGED <<cache, queued>>
        /\ UNCHANGED <<viewScenario, extension, reader, archive, history, ended, prices>>

(* A market price.  The engine advances a trade that is not awaiting its    *)
(* exit and, if its stop is crossed, begins an exit attempt: the events of  *)
(* the trade are published after its answer.  (Of several orders in flight  *)
(* one is followed.)  TrailingManager's tick then looks at the trade; with  *)
(* the extension at hand it evaluates in this turn.                         *)
Advanced(t, p) ==
    IF engine[t].awaiting THEN engine[t] ELSE AdvancePrice(Definitions[t], engine[t], p)

MarketPrice(t, p) ==
    LET tr == Advanced(t, p)
        stops == IF tr.awaiting /\ ~engine[t].awaiting THEN queued \cup {t} ELSE queued
        event == ~tr.awaiting /\ tr # engine[t]
        tick == [trade |-> t, price |-> p, snapshot |-> tr]
        atHand == known[t] # Null /\ ~event
        moved == IF atHand THEN Moved(tick, known[t], tr) ELSE tr
    IN  /\ t \in Held /\ engine[t].state = "ACTIVE"
        /\ prices < MaxPrices
        /\ prices' = prices + 1
        /\ engine' = [engine EXCEPT ![t] = IF moved.awaiting THEN BeginExitAttempt(moved)
                                                       ELSE moved]
        /\ ticks' = IF atHand THEN ticks ELSE ticks \cup {tick}
        /\ patches' = patches \cup (IF moved # tr THEN Attributed(t, stops) ELSE {})
                              \cup (IF atHand THEN StepPatch(tick, known[t], moved) ELSE {})
        /\ IF event \/ moved # tr THEN Publish(t, stops)
           ELSE queued' = stops /\ UNCHANGED <<cache, known>>
        /\ UNCHANGED <<viewScenario, extension, reader, archive, history, ended>>

-----------------------------------------------------------------------------
(* TradeExtensionStore.patch: the row is read, merged and saved, with an    *)
(* await before and after the merge.                                        *)
PatchFound(p) ==
    /\ p \in patches /\ p.row = Null
    /\ patches' = (patches \ {p})
                    \cup {[p EXCEPT !.row = [extension[p.trade] EXCEPT ![p.field] = p.value]]}
    /\ UNCHANGED <<viewScenario, engine, queued, extension, known, ticks, cache, reader,
                   archive, history, ended, prices>>

(* After the save: TrailingManager forgets the row and publishes            *)
(* StopLossMoved; ExitManager goes on to requestFullExit, which throws      *)
(* unless the trade is ACTIVE, and otherwise sends the order.  The other    *)
(* patches are the end of their calls.                                      *)
PatchSaved(p) ==
    /\ p \in patches /\ p.row # Null
    /\ patches' = patches \ {p}
    /\ extension' = [extension EXCEPT ![p.trade] = p.row]
    /\ IF p.by = "step" THEN Invalidate(p.trade) ELSE UNCHANGED <<cache, known>>
    /\ engine' = IF p.by = "exit" /\ engine[p.trade] # Null /\ engine[p.trade].state = "ACTIVE"
                 THEN [engine EXCEPT ![p.trade] = BeginExitAttempt(@)] ELSE engine
    /\ UNCHANGED <<viewScenario, queued, ticks, reader, archive, history, ended, prices>>

(* A loss of the broker only asks for the exit of a LIVE trade *)
AskedFor(t) ==
    IF Definitions[t].mode = "LIVE" THEN AskedExits ELSE AskedExits \ {"BROKER_DISCONNECT"}

(* ExitManager.exitWithReason: the reason is patched in before the exit is  *)
(* asked for.                                                               *)
RequestExit(t, reason) ==
    /\ "exit" \in viewScenario
    /\ t \in Held
    /\ \A p \in patches : p.by # "exit"
    /\ extension[t].reason = Null
    /\ patches' = patches \cup {Patch("exit", t, "reason", reason)}
    /\ Invalidate(t)
    /\ UNCHANGED <<viewScenario, engine, queued, extension, ticks, reader, archive, history,
                   ended, prices>>

(* An exit order is answered, the engine's own at a stop or ExitManager's:  *)
(* the position is closed or the attempt failed, and a stop tries again.    *)
ExitAnswered(t) ==
    /\ t \in Held /\ engine[t].exit = "SUBMITTED"
    /\ LET fill == [status |-> "FILLED", price |-> engine[t].stop,
                    quantity |-> OpenQuantity(engine[t])]
       IN  \/ /\ engine' = [engine EXCEPT ![t] = ApplyExitOrderResponse(@, fill).trade]
              /\ Ends(t, engine'[t])
              /\ Publish(t, queued)
           \/ /\ engine' = [engine EXCEPT ![t] = MarkExitAttemptFailed(@).trade]
              /\ IF t \in queued THEN Publish(t, queued)
                                 ELSE UNCHANGED <<cache, known, queued>>
              /\ UNCHANGED <<archive, ended>>
    /\ patches' = patches \cup Attributed(t, queued)
    /\ UNCHANGED <<viewScenario, extension, ticks, reader, history, prices>>

-----------------------------------------------------------------------------
(* The rest of archive: the extension is there, and the record is saved;    *)
(* a failed save is logged, and the trade is in no archive.                 *)
Archived(t) ==
    /\ archive[t] # Null
    /\ history' = [history EXCEPT ![t] = View(t, archive[t], extension[t])]
    /\ archive' = [archive EXCEPT ![t] = Null]
    /\ UNCHANGED <<viewScenario, engine, queued, extension, known, patches, ticks, cache,
                   reader, ended, prices>>

ArchiveFails(t) ==
    /\ "lossy" \in viewScenario
    /\ archive[t] # Null
    /\ archive' = [archive EXCEPT ![t] = Null]
    /\ ended' = [ended EXCEPT ![t].lost = TRUE]
    /\ UNCHANGED <<viewScenario, engine, queued, extension, known, patches, ticks, cache,
                   reader, history, prices>>

(* CleanupJob, once everything about the trade is older than the retention  *)
(* time: the engine's trades are pruned, and then the cache's final records *)
Busy(t) ==
    \/ archive[t] # Null
    \/ \E p \in patches : p.trade = t
    \/ \E k \in ticks : k.trade = t
    \/ \E r \in Readers : t \in reader[r].trades

Prune(t) ==
    /\ t \in Held /\ Over(t) /\ ~Busy(t)
    /\ engine' = [engine EXCEPT ![t] = Null]
    /\ cache' = [cache EXCEPT ![t] = IF @ # Null /\ @.status \in Terminal THEN Null ELSE @]
    /\ UNCHANGED <<viewScenario, queued, extension, known, patches, ticks, reader, archive,
                   history, ended, prices>>

-----------------------------------------------------------------------------
(* PositionManager's reads.  getPosition answers from the cache, composes   *)
(* the snapshot it takes with the extension it waits for, or falls back to  *)
(* the archive; composeMany takes all the snapshots and waits once, for the *)
(* extensions of those not cached.                                          *)
Takes(r, trades) ==
    reader' = [reader EXCEPT ![r] = [pc |-> "compose", trades |-> trades,
                                     snapshots |-> [t \in trades |-> engine[t]]]]

GetPosition(r, t) ==
    /\ "read" \in viewScenario
    /\ reader[r] = Quiet
    /\ cache[t] = Null
    /\ IF t \in Held THEN Takes(r, {t})
       ELSE reader' = [reader EXCEPT ![r] = [pc |-> "archive", trades |-> {t}, snapshots |-> <<>>]]
    /\ UNCHANGED <<viewScenario, engine, queued, extension, known, patches, ticks, cache,
                   archive, history, ended, prices>>

GetPositions(r, onlyActive) ==
    /\ "read" \in viewScenario
    /\ reader[r] = Quiet
    /\ LET uncached == {t \in Held : cache[t] = Null /\ (onlyActive => ~Over(t))}
       IN  uncached # {} /\ Takes(r, uncached)
    /\ UNCHANGED <<viewScenario, engine, queued, extension, known, patches, ticks, cache,
                   archive, history, ended, prices>>

Composed(r) ==
    /\ reader[r].pc = "compose"
    /\ cache' = [t \in ViewedTrades |-> IF t \in reader[r].trades
                                  THEN View(t, reader[r].snapshots[t], extension[t]) ELSE cache[t]]
    /\ reader' = [reader EXCEPT ![r] = Quiet]
    /\ UNCHANGED <<viewScenario, engine, queued, extension, known, patches, ticks, archive,
                   history, ended, prices>>

FoundInArchive(r) ==
    /\ reader[r].pc = "archive"
    /\ \E t \in reader[r].trades :
         cache' = [cache EXCEPT ![t] = IF history[t] = Null THEN @ ELSE history[t]]
    /\ reader' = [reader EXCEPT ![r] = Quiet]
    /\ UNCHANGED <<viewScenario, engine, queued, extension, known, patches, ticks, archive,
                   history, ended, prices>>

NextViews ==
    \/ \E t \in ViewedTrades : EntryFilled(t) \/ CancelTrade(t) \/ ApplyTrailing(t) \/ ExitAnswered(t)
    \/ \E t \in ViewedTrades, p \in Prices : MarketPrice(t, p)
    \/ \E t \in ViewedTrades : \E reason \in AskedFor(t) : RequestExit(t, reason)
    \/ \E tick \in ticks : Evaluate(tick)
    \/ \E p \in patches : PatchFound(p) \/ PatchSaved(p)
    \/ \E t \in ViewedTrades : Archived(t) \/ ArchiveFails(t) \/ Prune(t)
    \/ \E r \in Readers, t \in ViewedTrades : GetPosition(r, t)
    \/ \E r \in Readers, onlyActive \in BOOLEAN : GetPositions(r, onlyActive)
    \/ \E r \in Readers : Composed(r) \/ FoundInArchive(r)

ViewsSpec == InitViews /\ [][NextViews]_viewVars

-----------------------------------------------------------------------------
(* A trade that was evicted from memory is in the trade history with the    *)
(* state it ended in, unless saving it there failed; and no view that says  *)
(* a trade is over contradicts how it ended.                                *)
PrunedIsFindable ==
    \A t \in ViewedTrades :
      /\ engine[t] = Null => history[t] # Null \/ ended[t].lost
      /\ \A view \in {cache[t], history[t]} :
           view # Null /\ view.status \in Terminal => view.status = ended[t].state

(* The last step TrailingManager's STEP strategy keeps for a trade is not    *)
(* beyond the trade's stop, whichever of the ticks under way saves last: the *)
(* next step is counted from a stop that holds.  A target that is hit may    *)
(* put the stop back behind the step: advancePrice does not ask whether the  *)
(* stop it sets is better than the one there.                                *)
StepNeverAhead ==
    \A t \in Held :
      (engine[t].state = "ACTIVE" /\ engine[t].next = 1 /\ extension[t].step # Null)
        => ~Better(Definitions[t].direction, extension[t].step, engine[t].stop)
=============================================================================
