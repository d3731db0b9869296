--------------------------- MODULE RecoveryProofs ---------------------------
(* Proofs about Recovery, for all trades, runs, reconciliations and bounds. *)
EXTENDS Recovery, SequenceTheorems, TLAPS

-----------------------------------------------------------------------------
(* What is true of joining two sequences of elements of a third one, and so
   of removing an element *)
LEMMA ConcatElements ==
    ASSUME NEW S, NEW T, NEW a \in Seq(S), NEW b \in Seq(S),
           \A k \in 1..Len(a) : a[k] \in T, \A k \in 1..Len(b) : b[k] \in T
    PROVE  a \o b \in Seq(S) /\ \A k \in 1..Len(a \o b) : (a \o b)[k] \in T
<1>1. /\ a \o b \in Seq(S) /\ Len(a \o b) = Len(a) + Len(b)
      /\ \A k \in 1..(Len(a) + Len(b)) :
            (a \o b)[k] = IF k <= Len(a) THEN a[k] ELSE b[k - Len(a)]
  BY ConcatProperties
<1>2. Len(a) \in Nat /\ Len(b) \in Nat
  OBVIOUS
<1>3. ASSUME NEW k \in 1..(Len(a) + Len(b)) PROVE (a \o b)[k] \in T
  <2>1. CASE k <= Len(a)
    BY <1>1, <1>2, <2>1
  <2>2. CASE ~(k <= Len(a))
    <3>1. k - Len(a) \in 1..Len(b)
      BY <1>2, <2>2
    <3> QED BY <1>1, <2>2, <3>1
  <2> QED BY <2>1, <2>2
<1> QED BY <1>1, <1>3

LEMMA RemoveAtElements ==
    ASSUME NEW S, NEW T, NEW s \in Seq(S), NEW i \in 1..Len(s),
           \A k \in 1..Len(s) : s[k] \in T
    PROVE  RemoveAt(s, i) \in Seq(S) /\ \A k \in 1..Len(RemoveAt(s, i)) : RemoveAt(s, i)[k] \in T
<1>1. /\ Len(s) \in Nat /\ i - 1 \in Int /\ i + 1 \in Int /\ Len(s) \in Int /\ 1 \in Int
      /\ \A k \in 1..Len(s) : s[k] \in S
  OBVIOUS
<1>2. /\ SubSeq(s, 1, i - 1) \in Seq(S)
      /\ \A k \in 1..Len(SubSeq(s, 1, i - 1)) : SubSeq(s, 1, i - 1)[k] \in T
  <2>1. \A k \in 1..(i - 1) : s[k] \in S /\ s[k] \in T
    BY <1>1
  <2>2. /\ SubSeq(s, 1, i - 1) \in Seq(S)
        /\ Len(SubSeq(s, 1, i - 1)) = IF 1 <= i - 1 THEN i - 1 - 1 + 1 ELSE 0
        /\ \A k \in 1..(i - 1 - 1 + 1) : SubSeq(s, 1, i - 1)[k] = s[1 + k - 1]
    BY <1>1, <2>1, SubSeqProperties
  <2> QED BY <2>1, <2>2
<1>3. /\ SubSeq(s, i + 1, Len(s)) \in Seq(S)
      /\ \A k \in 1..Len(SubSeq(s, i + 1, Len(s))) : SubSeq(s, i + 1, Len(s))[k] \in T
  <2>1. \A k \in (i + 1)..Len(s) : s[k] \in S /\ s[k] \in T
    BY <1>1
  <2>2. /\ SubSeq(s, i + 1, Len(s)) \in Seq(S)
        /\ Len(SubSeq(s, i + 1, Len(s))) =
              IF i + 1 <= Len(s) THEN Len(s) - (i + 1) + 1 ELSE 0
        /\ \A k \in 1..(Len(s) - (i + 1) + 1) :
              SubSeq(s, i + 1, Len(s))[k] = s[(i + 1) + k - 1]
    BY <1>1, <2>1, SubSeqProperties
  <2> QED BY <2>1, <2>2
<1> QED BY <1>2, <1>3, ConcatElements DEF RemoveAt

-----------------------------------------------------------------------------
(* Runs: what becomes of the machine and the flag, whoever moves them *)
Processes == {"down", "boot", "serving", "stopping"}
States == {"IDLE", "FAILED"} \cup {StateDuring[step] : step \in DOMAIN StateDuring}
RunRecord == [pc : Places, tries : 0..MaxRetries, loaded : Book]

RunType ==
    /\ process \in Processes
    /\ run \in [Runs -> RunRecord]
    /\ state \in States /\ running \in BOOLEAN /\ scheduled \in BOOLEAN

LoadedKept == \A r \in Runs : run'[r].loaded = run[r].loaded

(* A process that goes on; the start-up may be over *)
GoesOn == process' = process \/ (process = "boot" /\ process' = "serving")

(* What a step of a run does to all of this *)
RunMoves == RunType' /\ RunInv' /\ LoadedKept /\ GoesOn

LEMMA GoesPlace ==
    ASSUME RunType, NEW r \in Runs, NEW pc \in Places, Goes(r, pc)
    PROVE  /\ run' \in [Runs -> RunRecord] /\ LoadedKept
           /\ \A q \in Runs \ {r} : run'[q] = run[q]
           /\ run'[r].pc = pc
<1>1. 0 \in 0..MaxRetries
  BY RecoveryAssumption
<1>2. run' = [run EXCEPT ![r] = [run[r] EXCEPT !.pc = pc, !.tries = 0]]
  BY DEF Goes, RunType, RunRecord
<1> QED BY <1>1, <1>2 DEF RunType, RunRecord, LoadedKept

LEMMA AfterPlace ==
    ASSUME NEW step \in Working
    PROVE  /\ After[step] \in Working \cup {"SAVE"}
           /\ After[step] \in Places
           /\ step \in NoTransition => After[step] \in Working
           /\ StateDuring[After[step]] \in States
           /\ After[step] = "SAVE" => StateDuring[After[step]] \in Terminal
BY DEF Working, After, StateDuring, States, Places, Saving, NoTransition, Terminal

(* `running` is taken back, and the machine rests or another run is at work *)
LEMMA EndsMoves ==
    ASSUME RunType, RunInv, NEW r \in Runs, NEW result \in Results, Ends(r, result),
           UNCHANGED state, state \in Terminal \/ run[r].pc \notin Working
    PROVE  RunMoves
<1>1. /\ run' \in [Runs -> RunRecord] /\ LoadedKept
      /\ \A q \in Runs \ {r} : run'[q] = run[q]
  BY GoesPlace DEF Ends, Places
<1>2. RunType'
  BY <1>1 DEF Ends, RunType, Processes
<1>3. RunInv'
  <2>1. CASE state \in Terminal
    BY <2>1 DEF Ends, RunInv
  <2>2. CASE run[r].pc \notin Working
    BY <1>1, <2>2 DEF Ends, RunInv
  <2> QED BY <2>1, <2>2
<1> QED BY <1>1, <1>2, <1>3 DEF RunMoves, GoesOn, Ends

(* Where a run is active, the flag may be up *)
LEMMA GoesMoves ==
    ASSUME RunType, RunInv, NEW r \in Runs, NEW pc \in Working \cup Saving, Goes(r, pc),
           state' \in States, state' \in Terminal \/ pc \in Working,
           running' \in BOOLEAN, UNCHANGED <<process, scheduled>>
    PROVE  RunMoves
<1>1. /\ run' \in [Runs -> RunRecord] /\ LoadedKept /\ run'[r].pc = pc
  BY GoesPlace DEF Places
<1>2. RunInv'
  BY <1>1 DEF RunInv, Active
<1> QED BY <1>1, <1>2 DEF RunMoves, GoesOn, RunType

LEMMA FailsMoves ==
    ASSUME RunType, RunInv, NEW r \in Runs, Fails(r)
    PROVE  RunMoves
<1>1. CASE state \in Terminal
  BY <1>1, EndsMoves DEF Fails, Results
<1>2. CASE state \notin Terminal
  BY <1>2, GoesMoves DEF Fails, Saving, States, Terminal, RunType
<1> QED BY <1>1, <1>2

LEMMA ProceedsMoves ==
    ASSUME RunType, RunInv, NEW r \in Runs, NEW step \in Working, Proceeds(r, step)
    PROVE  RunMoves
<1>1. CASE step \in NoTransition
  BY <1>1, AfterPlace, GoesMoves DEF Proceeds, RunType
<1>2. CASE step \notin NoTransition /\ state = StateDuring[step]
  BY <1>2, AfterPlace, GoesMoves DEF Proceeds, RunType, Saving
<1>3. CASE step \notin NoTransition /\ state # StateDuring[step]
  BY <1>3, FailsMoves DEF Proceeds
<1> QED BY <1>1, <1>2, <1>3

(* A run that is refused was not, and is not, at work *)
LEMMA RefusedMoves ==
    ASSUME RunType, RunInv, NEW r \in Runs, Goes(r, "threw") \/ Goes(r, "LOOKUP"), ~Active(r),
           state' = state, GoesOn, scheduled' = scheduled,
           running' \in BOOLEAN, running' => running \/ \E q \in Runs : Active(q)
    PROVE  RunMoves
<1>1. /\ run' \in [Runs -> RunRecord] /\ LoadedKept
      /\ \A q \in Runs \ {r} : run'[q] = run[q]
  BY GoesPlace DEF Places, Results
<1>2. \A q \in Runs : Active(q) => Active(q)' /\ (run[q].pc \in Working => run'[q].pc \in Working)
  BY <1>1 DEF Active
<1>3. \A q \in Runs : run[q].pc \in Working => Active(q)
  BY DEF Active
<1>4. RunInv'
  BY <1>2, <1>3 DEF RunInv
<1> QED BY <1>1, <1>4 DEF RunMoves, GoesOn, RunType, Processes

LEMMA BeginMoves ==
    ASSUME RunType, RunInv, NEW r \in Runs, Begin(r), ~Active(r)
    PROVE  RunMoves
<1>1. CASE CanReset
  BY <1>1, GoesMoves DEF Begin, Working, After, StateDuring, States
<1>2. CASE ~CanReset
  <2>1. \E q \in Runs : Active(q)
    BY <1>2 DEF CanReset, RunInv, Active
  <2> QED BY <1>2, <2>1, RefusedMoves DEF GoesOn, Begin, RunType
<1> QED BY <1>1, <1>2

LEMMA RunRests ==
    ASSUME RunType, RunInv, UNCHANGED <<process, runVars>>
    PROVE  RunMoves
BY DEF RunMoves, GoesOn, RunType, RunInv, LoadedKept, runVars, Active

(* A process that has ended *)
LEMMA DeadMoves ==
    ASSUME Dead, NoTrades \in Book
    PROVE  RunType' /\ RunInv'
<1>1. 0 \in 0..MaxRetries
  BY RecoveryAssumption
<1>2. NoRun \in RunRecord
  BY <1>1 DEF NoRun, RunRecord, Places
<1>3. RunType'
  BY <1>2 DEF Dead, RunType, Processes, States
<1>4. RunInv'
  BY DEF Dead, RunInv
<1> QED BY <1>3, <1>4

-----------------------------------------------------------------------------
(* Types *)
DataType ==
    /\ engine \in Book /\ order \in [Trades -> Orders] /\ asked \subseteq Trades
    /\ market \in {"off", "up", "broken"} /\ debounce \in BOOLEAN
    /\ writing \in Seq(Captures) /\ snapshot \in Book
    /\ recon \in [Reconcilers -> Reconciliations]
    /\ owed \subseteq Trades /\ deaths \in Nat /\ faults \in Nat

LEMMA TypeParts == TypeOK <=> RunType /\ DataType
BY DEF TypeOK, RunType, DataType, RunRecord, States, Processes

LEMMA TypePartsPrimed == TypeOK' <=> RunType' /\ DataType'
BY DEF TypeOK, RunType, DataType, RunRecord, States, Processes

LEMMA EmptyType == NoTrades \in Book /\ NoReports \in [Trades -> {"no report", "none", "partial", "filled"}]
BY DEF NoTrades, Book, NoReports

LEMMA NoReconType == NoRecon \in Reconciliations /\ [NoRecon EXCEPT !.pc = "done"] \in Reconciliations
BY EmptyType DEF NoRecon, Reconciliations

LEMMA AnsweredType ==
    ASSUME NEW e \in Trade, NEW o \in {"open", "partial", "filled"}
    PROVE  Answered(e, o) \in Trade
<1>1. CASE o = "open"
  BY <1>1 DEF Answered, Trade
<1>2. CASE o # "open"
  <2>1. FilledBy(o) \in 0..2
    BY DEF FilledBy
  <2> QED BY <1>2, <2>1 DEF Answered, Trade, Phases
<1> QED BY <1>1, <1>2

LEMMA RepairedType ==
    ASSUME NEW e \in Trade \cup {NoTrade}, NEW o \in {"partial", "filled"}
    PROVE  Repaired(e, o) \in Trade \cup {NoTrade}
<1>1. CASE e = NoTrade
  BY <1>1 DEF Repaired
<1>2. CASE e # NoTrade /\ e.phase = "ENTRY_PENDING"
  BY <1>2, AnsweredType DEF Repaired
<1>3. CASE e # NoTrade /\ e.phase # "ENTRY_PENDING"
  <2>1. Repaired(e, o) = [e EXCEPT !.filled = IF @ < FilledBy(o) THEN FilledBy(o) ELSE @]
    BY <1>3 DEF Repaired
  <2>2. e \in Trade /\ FilledBy(o) \in 0..2
    BY <1>3 DEF FilledBy
  <2> QED BY <2>1, <2>2 DEF Trade
<1> QED BY <1>1, <1>2, <1>3

LEMMA CaptureType ==
    ASSUME DataType, NEW owner \in Runs \cup {"timer"}
    PROVE  /\ Capture(owner) \in Captures
           /\ Append(writing, Capture(owner)) \in Seq(Captures)
BY AppendProperties DEF DataType, Capture, Captures

(* After a save: some captures less, with the same trades *)
LEMMA AfterSaveType ==
    ASSUME writing \in Seq(Captures), NEW i \in DOMAIN writing
    PROVE  /\ AfterSave(i) \in Seq(Captures)
           /\ \A k \in DOMAIN AfterSave(i) : \E j \in DOMAIN writing :
                  AfterSave(i)[k].trades = writing[j].trades
<1> DEFINE marked == [j \in DOMAIN writing |-> [writing[j] EXCEPT !.stale = @ \/ j < i]]
           T == {c \in Captures : \E j \in DOMAIN writing : c.trades = writing[j].trades}
<1>1. DOMAIN writing = 1..Len(writing) /\ Len(writing) \in Nat
  OBVIOUS
<1>2. \A j \in DOMAIN writing : marked[j] \in Captures /\ marked[j].trades = writing[j].trades
  <2> TAKE j \in DOMAIN writing
  <2>1. writing[j] \in Captures /\ (writing[j].stale \/ j < i) \in BOOLEAN
    BY <1>1
  <2>2. marked[j] = [writing[j] EXCEPT !.stale = writing[j].stale \/ j < i]
    OBVIOUS
  <2> QED BY <2>1, <2>2 DEF Captures
<1>3. marked \in Seq(Captures) /\ Len(marked) = Len(writing)
  <2>1. marked \in [1..Len(writing) -> Captures]
    BY <1>1, <1>2
  <2>2. marked \in Seq(Captures)
    BY <1>1, <2>1, SeqDef
  <2>3. DOMAIN marked = 1..Len(writing)
    BY <1>1
  <2> HIDE DEF marked
  <2>4. Len(marked) = Len(writing)
    BY <1>1, <2>2, <2>3
  <2> QED BY <2>2, <2>4
<1>4. \A j \in 1..Len(marked) : marked[j] \in T
  BY <1>1, <1>2, <1>3
<1>5. AfterSave(i) = RemoveAt(marked, i)
  BY DEF AfterSave
<1> HIDE DEF marked, T
<1>6. RemoveAt(marked, i) \in Seq(Captures)
      /\ \A k \in 1..Len(RemoveAt(marked, i)) : RemoveAt(marked, i)[k] \in T
  BY <1>1, <1>3, <1>4, RemoveAtElements
<1> QED BY <1>5, <1>6 DEF T

(* What waits for its save after a capture *)
LEMMA WritingMore ==
    ASSUME writing \in Seq(Captures), NEW c \in Captures
    PROVE  \A k \in DOMAIN Append(writing, c) :
              Append(writing, c)[k] = c \/ \E j \in DOMAIN writing : Append(writing, c)[k] = writing[j]
<1> DEFINE w == Append(writing, c)
<1>1. /\ Len(w) = Len(writing) + 1 /\ w \in Seq(Captures)
      /\ \A k \in 1..Len(writing) : w[k] = writing[k]
      /\ w[Len(writing) + 1] = c
  BY AppendProperties
<1>2. Len(writing) \in Nat /\ DOMAIN writing = 1..Len(writing)
  OBVIOUS
<1> HIDE DEF w
<1>3. DOMAIN w = 1..(Len(writing) + 1)
  BY <1>1, <1>2
<1>4. \A k \in DOMAIN w : w[k] = c \/ \E j \in DOMAIN writing : w[k] = writing[j]
  BY <1>1, <1>2, <1>3
<1> QED BY <1>4 DEF w

LEMMA WritingLess ==
    ASSUME writing \in Seq(Captures), NEW i \in DOMAIN writing
    PROVE  /\ RemoveAt(writing, i) \in Seq(Captures)
           /\ \A k \in DOMAIN RemoveAt(writing, i) : \E j \in DOMAIN writing :
                  RemoveAt(writing, i)[k].trades = writing[j].trades
<1> DEFINE T == {c \in Captures : \E j \in DOMAIN writing : c.trades = writing[j].trades}
<1>1. DOMAIN writing = 1..Len(writing) /\ \A j \in 1..Len(writing) : writing[j] \in T
  OBVIOUS
<1> HIDE DEF T
<1>2. RemoveAt(writing, i) \in Seq(Captures)
      /\ \A k \in 1..Len(RemoveAt(writing, i)) : RemoveAt(writing, i)[k] \in T
  BY <1>1, RemoveAtElements
<1> QED BY <1>2 DEF T

-----------------------------------------------------------------------------
(* The actions: those of runs that leave the data alone, and the others *)
RunEffect ==
    /\ RunMoves
    /\ UNCHANGED <<engine, order, asked, writing, snapshot, recon, owed, deaths>>
    /\ market' \in {"off", "up", "broken"} /\ faults' \in Nat
    /\ debounce' \in BOOLEAN /\ (Published \/ UNCHANGED debounce)

LEMMA PublishedType == ASSUME Published PROVE debounce' \in BOOLEAN
BY DEF Published

LEMMA RunActions ==
    ASSUME RunType, DataType, RunInv, NEW r \in Runs,
           \/ Call(r) \/ LookedUp(r) \/ LookupFails(r) \/ PlainStep(r) \/ ConnectMarket(r)
           \/ EngineRestored(r) \/ StepFails(r) \/ HistorySaved(r) \/ HistoryFails(r)
    PROVE  RunEffect
<1> USE DEF RunOnly, RunUnchanged
<1>a. /\ market \in {"off", "up", "broken"} /\ debounce \in BOOLEAN
      /\ faults \in Nat /\ faults + 1 \in Nat
  BY DEF DataType
<1>1. CASE Call(r)
  <2>1. ~Active(r)
    BY <1>1 DEF Call, Active, Working, After, Saving
  <2>2. RunMoves
    <3>1. CASE running
      BY <1>1, <2>1, <3>1, RefusedMoves DEF GoesOn, Call, RunType
    <3>2. CASE ~running /\ r \in Resuming
      BY <1>1, <2>1, <3>2, RefusedMoves DEF GoesOn, Call, RunType
    <3>3. CASE ~running /\ r \notin Resuming
      BY <1>1, <2>1, <3>3, BeginMoves DEF Call
    <3> QED BY <3>1, <3>2, <3>3
  <2> QED BY <1>a, <1>1, <2>2 DEF Call, RunEffect
<1>2. CASE LookedUp(r)
  <2>1. ~Active(r)
    BY <1>2 DEF LookedUp, Active, Working, After, Saving
  <2> QED BY <1>a, <1>2, <2>1, BeginMoves DEF LookedUp, RunEffect
<1>3. CASE LookupFails(r)
  <2>1. ~Active(r)
    BY <1>3 DEF LookupFails, Active, Working, After, Saving
  <2>2. RunMoves
    BY <1>3, <2>1, RefusedMoves DEF GoesOn, LookupFails, RunType, Processes
  <2> QED BY <1>a, <1>3, <2>2 DEF LookupFails, RunEffect
<1>4. CASE PlainStep(r)
  <2>1. PICK step \in {"VERIFY_DATABASE", "RESTORE_FEATURE_FLAGS", "RESTORE_RISK_STATE",
                       "RESTORE_BROKER_AUTHENTICATION", "RELOAD_INSTRUMENT_MASTER"} :
           StepDone(r, step)
    BY <1>4 DEF PlainStep
  <2>2. step \in Working
    BY DEF Working, After
  <2>3. RunMoves
    BY <2>1, <2>2, ProceedsMoves DEF StepDone
  <2>4. debounce' \in BOOLEAN
    BY <1>a, <1>4, PublishedType DEF PlainStep
  <2> QED BY <1>a, <1>4, <2>1, <2>3, <2>4 DEF PlainStep, StepDone, RunEffect
<1>5. CASE ConnectMarket(r)
  <2>1. RunMoves
    BY <1>5, ProceedsMoves DEF ConnectMarket, StepDone, Working, After
  <2> QED BY <1>a, <1>5, <2>1, PublishedType DEF ConnectMarket, StepDone, RunEffect
<1>6. CASE EngineRestored(r)
  <2>1. RunMoves
    BY <1>6, ProceedsMoves DEF EngineRestored, StepDone, Working, After
  <2> QED BY <1>a, <1>6, <2>1 DEF EngineRestored, StepDone, RunEffect
<1>7. CASE StepFails(r)
  <2>1. RunMoves
    <3>1. CASE Fails(r)
      BY <3>1, FailsMoves
    <3>2. CASE CanRetry(r) /\ run' = [run EXCEPT ![r].tries = @ + 1]
                          /\ UNCHANGED <<process, state, running, scheduled>>
      <4>1. run[r] \in RunRecord /\ run[r].tries + 1 \in 0..MaxRetries
        BY <3>2, RecoveryAssumption DEF RunType, RunRecord, CanRetry
      <4>2. run' \in [Runs -> RunRecord] /\ \A q \in Runs : run'[q].pc = run[q].pc /\ run'[q].loaded = run[q].loaded
        BY <3>2, <4>1 DEF RunType, RunRecord
      <4> QED BY <3>2, <4>2 DEF RunMoves, GoesOn, RunType, RunInv, Active, LoadedKept
    <3> QED BY <1>7, <3>1, <3>2 DEF StepFails
  <2>2. debounce' \in BOOLEAN
    BY <1>a, <1>7, PublishedType DEF StepFails
  <2> QED BY <1>a, <1>7, <2>1, <2>2 DEF StepFails, RunEffect
<1>8. CASE HistorySaved(r)
  <2>1. RunMoves
    BY <1>8, EndsMoves DEF HistorySaved, Results, Working, After
  <2> QED BY <1>a, <1>8, <2>1 DEF HistorySaved, RunEffect
<1>9. CASE HistoryFails(r)
  <2>1. RunMoves
    <3>1. CASE run[r].pc = "SAVE"
      BY <1>9, <3>1, FailsMoves DEF HistoryFails
    <3>2. CASE run[r].pc = "SAVE_FAILURE"
      BY <1>9, <3>2, EndsMoves DEF HistoryFails, Results, Working, After
    <3> QED BY <1>9, <3>1, <3>2 DEF HistoryFails, Saving
  <2> QED BY <1>a, <1>9, <2>1 DEF HistoryFails, RunEffect
<1> QED BY <1>1, <1>2, <1>3, <1>4, <1>5, <1>6, <1>7, <1>8, <1>9

LEMMA DeadType ==
    ASSUME DataType, Dead, UNCHANGED <<order, snapshot, owed>>,
           deaths' \in Nat, faults' \in Nat
    PROVE  RunType' /\ RunInv' /\ DataType' /\ DownIsIdle'
<1>1. RunType' /\ RunInv'
  BY EmptyType, DeadMoves
<1>2. DataType'
  <2>1. <<>> \in Seq(Captures)
    OBVIOUS
  <2>2. recon' \in [Reconcilers -> Reconciliations]
    BY NoReconType DEF Dead
  <2> QED BY <2>1, <2>2, EmptyType DEF DataType, Dead
<1>3. DownIsIdle'
  BY DEF DownIsIdle, Dead, NoRun, NoRecon
<1> QED BY <1>1, <1>2, <1>3

(* In a process that is down nothing happens but its start *)
LEMMA DownStays ==
    ASSUME DataType, DownIsIdle, process = "down", Next
    PROVE  Start \/ \E t \in Trades : BrokerFills(t)
<1> USE DEF DownIsIdle
<1>1. ASSUME NEW r \in Runs, Call(r) \/ RunStep(r) PROVE FALSE
  <2>1. run[r].pc = "off"
    OBVIOUS
  <2>2. ~Call(r) /\ ~LookedUp(r) /\ ~LookupFails(r) /\ ~LoadSnapshot(r) /\ ~RestoreTrade(r)
        /\ ~PositionsVerified(r) /\ ~HistorySaved(r) /\ ~HistoryFails(r)
    BY <2>1 DEF Call, LookedUp, LookupFails, LoadSnapshot, RestoreTrade, PositionsVerified,
                HistorySaved, HistoryFails, Saving
  <2>3. ~PlainStep(r) /\ ~ConnectMarket(r) /\ ~EngineRestored(r) /\ ~StepFails(r)
    BY <2>1 DEF PlainStep, ConnectMarket, EngineRestored, StepDone, StepFails, Working, After
  <2> QED BY <1>1, <2>2, <2>3 DEF RunStep
<1>2. ASSUME NEW a \in Reconcilers, BeginRecon(a) \/ ReconStep(a) PROVE FALSE
  <2>1. recon[a].pc = "idle" /\ (a \in Runs => run[a].pc = "off")
    OBVIOUS
  <2>2. ~BeginRecon(a)
    BY <2>1 DEF BeginRecon
  <2>3. ~ReconStep(a)
    BY <2>1 DEF ReconStep, Fetch, Apply, Reported, ReconFails
  <2> QED BY <1>2, <2>2, <2>3
<1>3. ~WriteStep /\ ~TimerFires /\ ~Crash /\ ~Stop /\ ~Exit /\ ~MorningStartup
  BY DEF WriteStep, TimerFires, Crash, Stop, Exit, MorningStartup, Up
<1>4. ASSUME NEW t \in Trades PROVE ~CreateTrade(t) /\ ~TriggerEntry(t) /\ ~EntryAnswered(t) /\ ~TradeEnds(t)
  BY DEF CreateTrade, TriggerEntry, EntryAnswered, TradeEnds, Up
<1> QED BY <1>1, <1>2, <1>3, <1>4 DEF Next, EngineStep

(* A step that does not end the process leaves DownIsIdle alone *)
LEMMA UpStays ==
    ASSUME DownIsIdle, process # "down", process' # "down"
    PROVE  DownIsIdle'
BY DEF DownIsIdle

(* A type that holds for both parts, in a process that goes on *)
Typed == RunType' /\ RunInv' /\ DataType'

LEMMA RestoringType ==
    ASSUME RunType, DataType, RunInv, NEW r \in Runs, LoadSnapshot(r) \/ RestoreTrade(r)
    PROVE  Typed /\ process' = process
<1> USE DEF RunOnly, RunUnchanged
<1>1. {"RESTORE_ACTIVE_TRADES", "RESTORE_TRADING_ENGINE"} \subseteq Working \cap Places
  BY DEF Working, After, Places
<1>2. /\ run' \in [Runs -> RunRecord]
      /\ \A q \in Runs : run'[q].pc = run[q].pc \/ (q = r /\ run[q].pc \in Working /\ run'[q].pc \in Working)
      /\ engine' \in Book /\ debounce' \in BOOLEAN
  <2>1. CASE LoadSnapshot(r)
    <3>1. [pc |-> "RESTORE_TRADING_ENGINE", tries |-> 0, loaded |-> snapshot] \in RunRecord
      BY <1>1, RecoveryAssumption DEF RunRecord, DataType
    <3> QED BY <1>1, <2>1, <3>1 DEF LoadSnapshot, RunType, DataType
  <2>2. CASE RestoreTrade(r)
    <3>1. PICK t \in Trades :
            /\ run' = [run EXCEPT ![r].loaded[t] = NoTrade]
            /\ engine' = [engine EXCEPT ![t] = Restored(@, run[r].loaded[t])]
            /\ Published \/ UNCHANGED debounce
      BY <2>2 DEF RestoreTrade
    <3>2. run[r] \in RunRecord /\ run[r].loaded \in Book
      BY DEF RunType, RunRecord
    <3>3. [run[r].loaded EXCEPT ![t] = NoTrade] \in Book /\ Restored(engine[t], run[r].loaded[t]) \in Trade \cup {NoTrade}
      BY <3>2 DEF Book, Restored, DataType
    <3>4. run' = [run EXCEPT ![r] = [run[r] EXCEPT !.loaded = [run[r].loaded EXCEPT ![t] = NoTrade]]]
      BY <3>1 DEF RunType, RunRecord
    <3>5. [run[r] EXCEPT !.loaded = [run[r].loaded EXCEPT ![t] = NoTrade]] \in RunRecord
      BY <3>2, <3>3 DEF RunRecord
    <3>6. run' \in [Runs -> RunRecord] /\ \A q \in Runs : run'[q].pc = run[q].pc
      BY <3>2, <3>4, <3>5 DEF RunType, RunRecord
    <3>7. engine' \in Book /\ debounce' \in BOOLEAN
      BY <3>1, <3>3, PublishedType DEF Book, DataType
    <3> QED BY <3>6, <3>7
  <2> QED BY <2>1, <2>2
<1>3. UNCHANGED <<process, state, running, scheduled, market, order, asked, writing, snapshot, recon, owed, deaths, faults>>
  BY DEF LoadSnapshot, RestoreTrade
<1>4. RunType' /\ DataType'
  BY <1>2, <1>3 DEF RunType, DataType
<1>5. RunInv'
  BY <1>2, <1>3 DEF RunInv, Active
<1> QED BY <1>3, <1>4, <1>5 DEF Typed

LEMMA CapturingType ==
    ASSUME RunType, DataType, RunInv, NEW r \in Runs, PositionsVerified(r)
    PROVE  /\ Typed /\ RunMoves
           /\ recon' = [recon EXCEPT ![r] = NoRecon] /\ writing' = Append(writing, Capture(r))
<1>1. RunMoves
  BY ProceedsMoves DEF PositionsVerified, StepDone, Working, After
<1>2. recon' \in [Reconcilers -> Reconciliations]
  BY NoReconType DEF PositionsVerified, DataType
<1>3. writing' \in Seq(Captures)
  BY CaptureType DEF PositionsVerified
<1>4. DataType'
  BY <1>2, <1>3 DEF PositionsVerified, StepDone, DataType, engineVars
<1> QED BY <1>1, <1>4 DEF Typed, RunMoves, PositionsVerified

LEMMA SavingType ==
    ASSUME RunType, DataType, RunInv, NEW i \in DOMAIN writing, CaptureSaved(i)
    PROVE  Typed /\ RunMoves
<1>1. writing[i] \in Captures
  BY DEF DataType
<1>2. RunMoves
  BY <1>1, ProceedsMoves, RunRests DEF CaptureSaved, Working, After
<1>3. snapshot' \in Book
  BY <1>1 DEF CaptureSaved, LatestAfter, DataType, Captures
<1>4. writing' \in Seq(Captures)
  BY AfterSaveType DEF CaptureSaved, DataType
<1>5. DataType'
  BY <1>3, <1>4 DEF CaptureSaved, DataType, engineVars, bounds
<1> QED BY <1>2, <1>5 DEF Typed, RunMoves

(* A save that fails: the end of the process, or a capture less *)
SaveFails(i) ==
    /\ Typed /\ RunMoves
    /\ writing' = RemoveAt(writing, i)
    /\ UNCHANGED <<engine, order, asked, snapshot, recon>>

LEMMA FailingType ==
    ASSUME RunType, DataType, RunInv, NEW i \in DOMAIN writing, CaptureFails(i)
    PROVE  \/ Typed /\ DownIsIdle' /\ Dead /\ UNCHANGED <<order, snapshot>>
           \/ SaveFails(i)
<1>1. writing[i] \in Captures /\ writing[i].owner \in Runs \cup {"timer"}
  <2>1. writing[i] \in Captures
    BY DEF DataType
  <2> QED BY <2>1 DEF Captures
<1>2. faults' \in Nat /\ deaths' \in Nat /\ UNCHANGED <<order, snapshot, owed>>
  BY DEF CaptureFails, DataType
<1>3. CASE Dead
  BY <1>2, <1>3, DeadType DEF Typed
<1>4. CASE ~Dead
  <2>1. ~(writing[i].owner = "timer" /\ process # "stopping")
    BY <1>4 DEF CaptureFails
  <2>2. /\ writing' = RemoveAt(writing, i)
        /\ UNCHANGED <<engine, asked, market, debounce, recon>>
        /\ IF writing[i].owner = "timer" THEN UNCHANGED <<process, runVars>>
           ELSE IF process = "stopping" THEN Proceeds(writing[i].owner, "CAPTURE")
           ELSE Fails(writing[i].owner)
    BY <2>1 DEF CaptureFails
  <2>3. RunMoves
    <3>1. CASE writing[i].owner = "timer" /\ UNCHANGED <<process, runVars>>
      BY <3>1, RunRests
    <3>2. CASE writing[i].owner \in Runs /\ Proceeds(writing[i].owner, "CAPTURE")
      BY <3>2, ProceedsMoves DEF Working, After
    <3>3. CASE writing[i].owner \in Runs /\ Fails(writing[i].owner)
      BY <3>3, FailsMoves
    <3>4. CASE writing[i].owner = "timer"
      BY <2>1, <2>2, <3>1, <3>4
    <3>5. CASE writing[i].owner # "timer"
      BY <1>1, <2>2, <3>2, <3>3, <3>5
    <3> QED BY <3>4, <3>5
  <2>4. writing' \in Seq(Captures)
    BY <2>2, WritingLess DEF DataType
  <2>5. DataType'
    BY <1>2, <2>2, <2>4 DEF DataType
  <2> QED BY <1>2, <2>2, <2>3, <2>5 DEF SaveFails, Typed, RunMoves
<1> QED BY <1>3, <1>4

LEMMA EngineType ==
    ASSUME RunType, DataType, RunInv, NEW t \in Trades,
           CreateTrade(t) \/ TriggerEntry(t) \/ EntryAnswered(t) \/ BrokerFills(t) \/ TradeEnds(t)
    PROVE  Typed /\ process' = process
<1>1. UNCHANGED <<process, runVars>>
  BY DEF CreateTrade, TriggerEntry, EntryAnswered, BrokerFills, TradeEnds, EngineOnly
<1>2. DataType' => Typed
  BY <1>1, RunRests DEF Typed, RunMoves
<1>3. /\ UNCHANGED <<market, writing, snapshot, recon, owed, deaths, faults>>
      /\ debounce' \in BOOLEAN
  BY PublishedType DEF CreateTrade, TriggerEntry, EntryAnswered, BrokerFills, TradeEnds, EngineOnly,
     bounds, DataType
<1>4. engine[t] \in Trade \cup {NoTrade} /\ order[t] \in Orders
  BY DEF DataType, Book
<1>5. engine' \in Book /\ order' \in [Trades -> Orders] /\ asked' \subseteq Trades
  <2>1. CASE CreateTrade(t)
    BY <2>1 DEF CreateTrade, NewTrade, Trade, Phases, Orders, Book, DataType
  <2>2. CASE TriggerEntry(t)
    <3>1. engine[t] \in Trade /\ [engine[t] EXCEPT !.phase = "ENTRY_PENDING"] \in Trade
      BY <1>4, <2>2 DEF TriggerEntry, Open, Trade, Phases
    <3>2. engine' = [engine EXCEPT ![t] = [engine[t] EXCEPT !.phase = "ENTRY_PENDING"]]
      BY <2>2 DEF TriggerEntry, DataType, Book
    <3> QED BY <2>2, <3>1, <3>2 DEF TriggerEntry, Orders, Book, DataType
  <2>3. CASE EntryAnswered(t)
    <3>1. asked' \subseteq Trades /\ order' = order
      BY <2>3 DEF EntryAnswered, DataType
    <3>2. engine[t] \in Trade /\ [engine[t] EXCEPT !.phase = "ENDED"] \in Trade
      BY <1>4, <2>3 DEF EntryAnswered, Open, Trade, Phases
    <3>3. order[t] \in {"open", "partial", "filled"} => Answered(engine[t], order[t]) \in Trade
      BY <3>2, AnsweredType
    <3>4. PICK e \in Trade : engine' = [engine EXCEPT ![t] = e]
      <4>1. CASE engine' = [engine EXCEPT ![t].phase = "ENDED"]
        <5>1. engine' = [engine EXCEPT ![t] = [engine[t] EXCEPT !.phase = "ENDED"]]
          BY <4>1 DEF DataType, Book
        <5> QED BY <3>2, <5>1
      <4>2. CASE /\ order[t] \in {"open", "partial", "filled"}
                 /\ engine' = [engine EXCEPT ![t] = Answered(@, order[t])]
        BY <3>3, <4>2 DEF DataType, Book
      <4> QED BY <2>3, <4>1, <4>2 DEF EntryAnswered
    <3> QED BY <3>1, <3>4 DEF Book, DataType
  <2>4. CASE BrokerFills(t)
    BY <2>4 DEF BrokerFills, Orders, DataType
  <2>5. CASE TradeEnds(t)
    <3>1. engine[t] \in Trade /\ [engine[t] EXCEPT !.phase = "ENDED"] \in Trade
      BY <1>4, <2>5 DEF TradeEnds, Open, Trade, Phases
    <3>2. engine' = [engine EXCEPT ![t] = [engine[t] EXCEPT !.phase = "ENDED"]]
      BY <2>5 DEF TradeEnds, DataType, Book
    <3> QED BY <2>5, <3>1, <3>2 DEF TradeEnds, Book, DataType
  <2> QED BY <2>1, <2>2, <2>3, <2>4, <2>5
<1> QED BY <1>1, <1>2, <1>3, <1>5 DEF DataType

LEMMA ReconType ==
    ASSUME RunType, DataType, RunInv, NEW a \in Reconcilers,
           BeginRecon(a) \/ Fetch(a) \/ Apply(a) \/ Reported(a)
    PROVE  Typed /\ process' = process
<1> USE DEF ReconOnly
<1>1. UNCHANGED <<process, runVars, order, asked, market, writing, snapshot, owed, deaths>>
  BY DEF BeginRecon, Fetch, Apply, Reported
<1>2. DataType' => Typed
  BY <1>1, RunRests DEF Typed, RunMoves
<1>3. /\ recon[a] \in Reconciliations
      /\ recon[a].views \in Book
      /\ recon[a].found \in [Trades -> {"no report", "none", "partial", "filled"}]
  BY DEF DataType, Reconciliations
<1>4. ASSUME NEW x \in Reconciliations, recon' = [recon EXCEPT ![a] = x]
      PROVE  recon' \in [Reconcilers -> Reconciliations]
  BY <1>4 DEF DataType
<1>5. CASE BeginRecon(a)
  <2>1. [t \in Trades |-> IF Open(engine[t]) THEN engine[t] ELSE NoTrade] \in Book
    BY DEF DataType, Book
  <2>2. [pc |-> "fetch",
         views |-> [t \in Trades |-> IF Open(engine[t]) THEN engine[t] ELSE NoTrade],
         found |-> NoReports] \in Reconciliations
    BY <2>1, EmptyType DEF Reconciliations
  <2>3. recon' \in [Reconcilers -> Reconciliations]
    BY <1>5, <2>2 DEF BeginRecon, DataType
  <2> QED BY <1>1, <1>2, <1>5, <2>3 DEF BeginRecon, DataType
<1>6. CASE Fetch(a)
  <2>1. faults' \in Nat /\ UNCHANGED <<engine, debounce>>
    BY <1>6 DEF Fetch, DataType
  <2>2. PICK t \in Trades, o \in {"none", "partial", "filled"} :
           \/ recon' = [[recon EXCEPT ![a].views[t] = NoTrade] EXCEPT ![a].found[t] = o]
           \/ recon' = [recon EXCEPT ![a].views[t] = NoTrade]
    <3>1. PICK t \in Trades :
            LET view == recon[a].views[t]
                asks == [recon EXCEPT ![a].views[t] = NoTrade]
                replay == IF SafeToRepair(view, order[t]) THEN order[t] ELSE "none" IN
            \/ recon' = [asks EXCEPT ![a].found[t] = replay]
            \/ recon' = asks
      BY <1>6 DEF Fetch
    <3>2. (IF SafeToRepair(recon[a].views[t], order[t]) THEN order[t] ELSE "none") \in {"none", "partial", "filled"}
      BY DEF SafeToRepair
    <3> QED BY <3>1, <3>2
  <2>3. [recon[a].views EXCEPT ![t] = NoTrade] \in Book
    BY <1>3 DEF Book
  <2>4. [recon[a].found EXCEPT ![t] = o] \in [Trades -> {"no report", "none", "partial", "filled"}]
    BY <1>3
  <2> DEFINE x == [recon[a] EXCEPT !.views = [recon[a].views EXCEPT ![t] = NoTrade]]
             y == [x EXCEPT !.found = [recon[a].found EXCEPT ![t] = o]]
  <2>5. x \in Reconciliations /\ y \in Reconciliations
    BY <1>3, <2>3, <2>4 DEF Reconciliations
  <2>6. recon' = [recon EXCEPT ![a] = x] \/ recon' = [recon EXCEPT ![a] = y]
    BY <1>3, <2>2 DEF DataType, Reconciliations
  <2> HIDE DEF x, y
  <2>7. recon' \in [Reconcilers -> Reconciliations]
    BY <2>5, <2>6 DEF DataType
  <2> QED BY <1>1, <1>2, <2>1, <2>7 DEF DataType
<1>7. CASE Apply(a)
  <2>1. PICK t \in Trades :
           /\ recon[a].found[t] # "no report"
           /\ engine' = IF recon[a].found[t] = "none" THEN engine
                        ELSE [engine EXCEPT ![t] = Repaired(@, recon[a].found[t])]
           /\ recon' = [recon EXCEPT ![a].found[t] = "no report"]
    BY <1>7 DEF Apply
  <2>2. engine' \in Book
    <3>1. CASE recon[a].found[t] = "none"
      BY <2>1, <3>1 DEF DataType
    <3>2. CASE recon[a].found[t] # "none"
      <4>1. recon[a].found[t] \in {"partial", "filled"}
        BY <1>3, <2>1, <3>2
      <4>2. Repaired(engine[t], recon[a].found[t]) \in Trade \cup {NoTrade}
        BY <4>1, RepairedType DEF DataType, Book
      <4> QED BY <2>1, <3>2, <4>2 DEF DataType, Book
    <3> QED BY <3>1, <3>2
  <2>3. [recon[a].found EXCEPT ![t] = "no report"] \in [Trades -> {"no report", "none", "partial", "filled"}]
    BY <1>3
  <2>4. recon' \in [Reconcilers -> Reconciliations]
    <3>1. [recon[a] EXCEPT !.found = [recon[a].found EXCEPT ![t] = "no report"]] \in Reconciliations
      BY <1>3, <2>3 DEF Reconciliations
    <3>2. recon' = [recon EXCEPT ![a] = [recon[a] EXCEPT !.found = [recon[a].found EXCEPT ![t] = "no report"]]]
      BY <1>3, <2>1 DEF DataType, Reconciliations
    <3> QED BY <3>1, <3>2 DEF DataType
  <2>5. debounce' \in BOOLEAN
    BY <1>7, PublishedType DEF Apply
  <2> QED BY <1>1, <1>2, <1>7, <2>2, <2>4, <2>5 DEF Apply, DataType
<1>8. CASE Reported(a)
  <2>1. recon' \in [Reconcilers -> Reconciliations]
    BY <1>8, NoReconType DEF Reported, DataType
  <2> QED BY <1>1, <1>2, <1>8, <2>1 DEF Reported, DataType
<1> QED BY <1>5, <1>6, <1>7, <1>8

(* The rest of a reconciliation is dropped, or the process ends *)
ReconDrops(a) ==
    /\ Typed /\ process' = process
    /\ recon' = [recon EXCEPT ![a] = recon'[a]]
    /\ recon'[a] \in {NoRecon, [NoRecon EXCEPT !.pc = "done"]}
    /\ UNCHANGED <<engine, order, writing, snapshot, run>>

LEMMA ReconFailsType ==
    ASSUME RunType, DataType, RunInv, NEW a \in Reconcilers, ReconFails(a)
    PROVE  \/ Typed /\ DownIsIdle' /\ Dead /\ UNCHANGED <<order, snapshot>>
           \/ ReconDrops(a)
<1>1. faults' \in Nat /\ deaths' \in Nat /\ UNCHANGED <<order, snapshot, owed>>
  BY DEF ReconFails, DataType
<1>2. CASE Dead
  BY <1>1, <1>2, DeadType DEF Typed
<1>3. CASE ~Dead
  <2>1. /\ recon' = [recon EXCEPT ![a] = IF a \in Runs THEN [NoRecon EXCEPT !.pc = "done"] ELSE NoRecon]
        /\ UNCHANGED <<process, engine, asked, market, debounce, writing, runVars>>
    BY <1>3 DEF ReconFails
  <2>2. recon' \in [Reconcilers -> Reconciliations]
    BY <2>1, NoReconType DEF DataType
  <2>3. DataType'
    BY <1>1, <2>1, <2>2 DEF DataType
  <2>4. RunMoves
    BY <2>1, RunRests
  <2>5. recon' = [recon EXCEPT ![a] = recon'[a]] /\ recon'[a] \in {NoRecon, [NoRecon EXCEPT !.pc = "done"]}
    BY <2>1 DEF DataType
  <2> QED BY <1>1, <2>1, <2>3, <2>4, <2>5 DEF ReconDrops, Typed, RunMoves, runVars
<1> QED BY <1>2, <1>3

(* What changes neither a trade nor what is known of one *)
Quiet ==
    /\ Typed
    /\ UNCHANGED <<engine, order, writing, snapshot, recon>> /\ LoadedKept

LEMMA QuietType ==
    ASSUME RunType, DataType, RunInv, DownIsIdle, Start \/ Stop \/ MorningStartup
    PROVE  Quiet /\ process' # "down"
<1>1. CASE Start
  <2>1. state \in Terminal \cup {"IDLE"} /\ ~running
    BY <1>1 DEF Start, DownIsIdle, RunInv, Working, After, Saving, Active
  <2>2. /\ run' \in [Runs -> RunRecord] /\ LoadedKept
    <3>1. run' = run \/ run' = [run EXCEPT ![Boot] = [run[Boot] EXCEPT !.pc = "LOOKUP"]]
      BY <1>1 DEF Start, RunType, RunRecord
    <3> QED BY <3>1, RecoveryAssumption DEF RunType, RunRecord, LoadedKept, Places
  <2>3. UNCHANGED <<state, running, scheduled>> /\ process' \in {"boot", "serving"}
    BY <1>1 DEF Start
  <2>4. RunType' /\ RunInv'
    BY <2>1, <2>2, <2>3 DEF RunType, RunInv, Processes
  <2>5. DataType' /\ UNCHANGED <<engine, order, writing, snapshot, recon>>
    BY <1>1 DEF Start, DataType, engineVars, captureVars, bounds
  <2> QED BY <2>2, <2>3, <2>4, <2>5 DEF Quiet, Typed
<1>2. CASE Stop
  <2>1. UNCHANGED <<state, running, run>> /\ process' = "stopping" /\ scheduled' = FALSE
    BY <1>2 DEF Stop
  <2>2. RunType' /\ RunInv' /\ LoadedKept
    BY <2>1 DEF RunType, RunInv, Active, LoadedKept, Processes
  <2>3. DataType' /\ UNCHANGED <<engine, order, writing, snapshot, recon>>
    <3>1. deaths' \in Nat /\ debounce' = FALSE
      BY <1>2 DEF Stop, DataType
    <3>2. UNCHANGED <<engine, order, asked, market, writing, snapshot, recon, owed, faults>>
      BY <1>2 DEF Stop, engineVars
    <3> QED BY <3>1, <3>2 DEF DataType
  <2> QED BY <2>1, <2>2, <2>3 DEF Quiet, Typed
<1>3. CASE MorningStartup
  <2>1. RunMoves /\ process' = "serving"
    BY <1>3, RunRests DEF MorningStartup
  <2>2. DataType' /\ UNCHANGED <<engine, order, writing, snapshot, recon>>
    BY <1>3, PublishedType DEF MorningStartup, DataType, engineVars, bounds
  <2> QED BY <2>1, <2>2 DEF Quiet, Typed, RunMoves
<1> QED BY <1>1, <1>2, <1>3

LEMMA TimerType ==
    ASSUME RunType, DataType, RunInv, TimerFires
    PROVE  Typed /\ RunMoves /\ process' = process
<1>1. RunMoves
  BY RunRests DEF TimerFires
<1>2. DataType'
  BY CaptureType DEF TimerFires, DataType, engineVars, bounds
<1> QED BY <1>1, <1>2 DEF Typed, RunMoves, TimerFires

LEMMA EndedType ==
    ASSUME RunType, DataType, RunInv, Crash \/ Exit
    PROVE  Typed /\ DownIsIdle' /\ Dead /\ UNCHANGED <<order, snapshot>>
<1>1. Dead /\ UNCHANGED <<order, snapshot, owed>> /\ faults' \in Nat /\ deaths' \in Nat
  BY DEF Crash, Exit, bounds, DataType
<1> QED BY <1>1, DeadType DEF Typed

-----------------------------------------------------------------------------
(* Type correctness and the runs *)
LEMMA NextTyped ==
    ASSUME TypeOK, RunInv, DownIsIdle, Next
    PROVE  TypeOK' /\ RunInv' /\ DownIsIdle'
<1>1. RunType /\ DataType
  BY TypeParts
<1>2. Typed
  <2>1. ASSUME NEW r \in Runs, Call(r) \/ RunStep(r) PROVE Typed
    <3>1. CASE LoadSnapshot(r) \/ RestoreTrade(r)
      BY <1>1, <3>1, RestoringType
    <3>2. CASE PositionsVerified(r)
      BY <1>1, <3>2, CapturingType
    <3>3. CASE RunEffect
      BY <1>1, <3>3 DEF RunEffect, Typed, DataType, RunMoves
    <3> QED BY <1>1, <2>1, <3>1, <3>2, <3>3, RunActions DEF RunStep
  <2>2. ASSUME NEW a \in Reconcilers, BeginRecon(a) \/ ReconStep(a) PROVE Typed
    BY <1>1, <2>2, ReconType, ReconFailsType DEF ReconStep, ReconDrops
  <2>3. CASE WriteStep
    BY <1>1, <2>3, SavingType, FailingType DEF WriteStep, SaveFails
  <2>4. CASE EngineStep
    BY <1>1, <2>4, EngineType DEF EngineStep
  <2>5. CASE Crash \/ Exit
    BY <1>1, <2>5, EndedType
  <2>6. CASE Start \/ Stop \/ MorningStartup
    BY <1>1, <2>6, QuietType DEF Quiet
  <2>7. CASE TimerFires
    BY <1>1, <2>7, TimerType
  <2> QED BY <2>1, <2>2, <2>3, <2>4, <2>5, <2>6, <2>7 DEF Next
<1>3. DownIsIdle'
  <2>1. CASE process = "down"
    <3>1. CASE Start
      BY <1>1, <3>1, QuietType DEF DownIsIdle
    <3>2. ASSUME NEW t \in Trades, BrokerFills(t) PROVE DownIsIdle'
      BY <3>2 DEF BrokerFills, EngineOnly, runVars, DownIsIdle
    <3> QED BY <1>1, <2>1, <3>1, <3>2, DownStays
  <2>2. CASE process # "down" /\ (process' # "down" \/ DownIsIdle')
    BY <2>2, UpStays
  <2>3. process # "down" => process' # "down" \/ DownIsIdle'
    <3> SUFFICES ASSUME process # "down" PROVE process' # "down" \/ DownIsIdle'
      OBVIOUS
    <3>1. ASSUME NEW r \in Runs, Call(r) \/ RunStep(r) PROVE process' # "down"
      <4>1. CASE LoadSnapshot(r) \/ RestoreTrade(r)
        BY <1>1, <4>1, RestoringType
      <4>2. CASE PositionsVerified(r)
        BY <1>1, <4>2, CapturingType DEF RunMoves, GoesOn
      <4>3. CASE RunEffect
        BY <4>3 DEF RunEffect, RunMoves, GoesOn
      <4> QED BY <1>1, <3>1, <4>1, <4>2, <4>3, RunActions DEF RunStep
    <3>2. ASSUME NEW a \in Reconcilers, BeginRecon(a) \/ ReconStep(a) PROVE process' # "down" \/ DownIsIdle'
      BY <1>1, <3>2, ReconType, ReconFailsType DEF ReconStep, ReconDrops
    <3>3. CASE WriteStep
      BY <1>1, <3>3, SavingType, FailingType DEF WriteStep, SaveFails, RunMoves, GoesOn
    <3>4. CASE EngineStep
      BY <1>1, <3>4, EngineType DEF EngineStep
    <3>5. CASE Crash \/ Exit
      BY <1>1, <3>5, EndedType
    <3>6. CASE Start \/ Stop \/ MorningStartup
      BY <1>1, <3>6, QuietType
    <3>7. CASE TimerFires
      BY <1>1, <3>7, TimerType
    <3> QED BY <3>1, <3>2, <3>3, <3>4, <3>5, <3>6, <3>7 DEF Next
  <2> QED BY <2>1, <2>2, <2>3
<1> QED BY <1>2, <1>3, TypePartsPrimed DEF Typed

-----------------------------------------------------------------------------
(* What can happen to one trade.  These lemmas are about values, not states:
   e is what the engine has, o the order, kept what captures and runs have of
   it, written what is being saved, views and found what reconciliations have. *)
LEMMA AdvancesFrom ==
    ASSUME NEW e \in Trade \cup {NoTrade}
    PROVE  Advances(e, e)
BY DEF Advances, Trade, Phases, Rank

LEMMA AdvancesOn ==
    ASSUME NEW f \in Trade \cup {NoTrade}, NEW e \in Trade, NEW g \in Trade,
           Advances(f, e), Advances(e, g)
    PROVE  Advances(f, g)
BY NoTradeAssumption DEF Advances, Trade, Phases, Rank

(* Less is known of it *)
Less(kept2, written2, views2, found2, kept, written, views, found) ==
    /\ kept2 \in SUBSET (kept \cup {NoTrade})
    /\ written2 \in SUBSET (written \cup {NoTrade})
    /\ views2 \in SUBSET (views \cup {NoTrade})
    /\ found2 \in SUBSET (found \cup {"no report", "none"})

LEMMA TradeForgotten ==
    ASSUME NEW e \in Trade \cup {NoTrade}, NEW kept \in SUBSET (Trade \cup {NoTrade}),
           NEW written \in SUBSET kept, NEW o \in Orders,
           NEW views \in SUBSET (Trade \cup {NoTrade}), NEW found,
           TradeInv(e, kept, written, o, views, found),
           NEW kept2, NEW written2, NEW views2, NEW found2,
           Less(kept2, written2, views2, found2, kept, written, views, found)
    PROVE  TradeInv(e, kept2, written2, o, views2, found2)
<1> USE DEF TradeInv, Less
<1>1. Real(e, kept2, o) /\ NewLeavesNoTrace(e, kept2, o)
  BY DEF Real, NewLeavesNoTrace, Sound
<1>2. EngineIsAhead(e, kept2) /\ OneToRestore(e, kept2, written2)
  BY DEF EngineIsAhead, OneToRestore, Advances
<1>3. ViewsAreBehind(e, views2) /\ RepairsAreReal(e, found2, o)
  BY DEF ViewsAreBehind, RepairsAreReal
<1> QED BY <1>1, <1>2, <1>3

(* The process has ended *)
LEMMA TradeLost ==
    ASSUME NEW e \in Trade \cup {NoTrade}, NEW kept \in SUBSET (Trade \cup {NoTrade}),
           NEW written \in SUBSET kept, NEW o \in Orders,
           NEW views \in SUBSET (Trade \cup {NoTrade}), NEW found,
           TradeInv(e, kept, written, o, views, found), NEW s \in kept
    PROVE  TradeInv(NoTrade, {s, NoTrade}, {}, o, {NoTrade}, {"no report"})
<1> USE DEF TradeInv
<1>1. Real(NoTrade, {s, NoTrade}, o) /\ NewLeavesNoTrace(NoTrade, {s, NoTrade}, o)
  BY DEF Real, NewLeavesNoTrace, Sound
<1>2. EngineIsAhead(NoTrade, {s, NoTrade}) /\ OneToRestore(NoTrade, {s, NoTrade}, {})
  BY DEF EngineIsAhead, OneToRestore, Advances
<1>3. ViewsAreBehind(NoTrade, {NoTrade}) /\ RepairsAreReal(NoTrade, {"no report"}, o)
  BY DEF ViewsAreBehind, RepairsAreReal
<1> QED BY <1>1, <1>2, <1>3

(* It is captured *)
LEMMA TradeCaptured ==
    ASSUME NEW e \in Trade \cup {NoTrade}, NEW kept \in SUBSET (Trade \cup {NoTrade}),
           NEW written \in SUBSET kept, NEW o \in Orders,
           NEW views \in SUBSET (Trade \cup {NoTrade}), NEW found,
           TradeInv(e, kept, written, o, views, found),
           NEW kept2 \in SUBSET (kept \cup {e, NoTrade}), NEW written2 \in SUBSET (written \cup {e})
    PROVE  TradeInv(e, kept2, written2, o, views, found)
<1> USE DEF TradeInv
<1>1. Real(e, kept2, o) /\ NewLeavesNoTrace(e, kept2, o)
  BY DEF Real, NewLeavesNoTrace, Sound
<1>2. EngineIsAhead(e, kept2)
  BY AdvancesFrom DEF EngineIsAhead, Advances
<1>3. OneToRestore(e, kept2, written2)
  BY DEF OneToRestore
<1> QED BY <1>1, <1>2, <1>3

(* A reconciliation looks at it *)
LEMMA TradeViewed ==
    ASSUME NEW e \in Trade \cup {NoTrade}, NEW kept \in SUBSET (Trade \cup {NoTrade}),
           NEW written \in SUBSET kept, NEW o \in Orders,
           NEW views \in SUBSET (Trade \cup {NoTrade}), NEW found,
           TradeInv(e, kept, written, o, views, found), NEW views2 \in SUBSET (views \cup {e, NoTrade}),
           NEW found2 \in SUBSET (found \cup {"no report"})
    PROVE  TradeInv(e, kept, written, o, views2, found2)
<1> USE DEF TradeInv
<1>1. ViewsAreBehind(e, views2)
  BY AdvancesFrom DEF ViewsAreBehind, Real
<1>2. RepairsAreReal(e, found2, o)
  BY DEF RepairsAreReal
<1> QED BY <1>1, <1>2

(* The broker is asked about it: what is replayed has been sent *)
LEMMA TradeLookedUp ==
    ASSUME NEW e \in Trade \cup {NoTrade}, NEW kept \in SUBSET (Trade \cup {NoTrade}),
           NEW written \in SUBSET kept, NEW o \in Orders,
           NEW views \in SUBSET (Trade \cup {NoTrade}), NEW found,
           TradeInv(e, kept, written, o, views, found), NEW v \in views, SafeToRepair(v, o), v # NoTrade
    PROVE  TradeInv(e, kept, written, o, views, found \cup {o})
<1> USE DEF TradeInv
<1>1. v \in Trade /\ v.id /\ v.phase = "ENTRY_PENDING"
  BY DEF SafeToRepair, ViewsAreBehind, Sound
<1>2. e # NoTrade /\ Rank[v.phase] <= Rank[e.phase]
  BY <1>1 DEF ViewsAreBehind, Advances
<1>3. e.phase # "WAITING_ENTRY"
  BY <1>1, <1>2 DEF Rank
<1>4. FilledBy(o) <= FilledBy(o)
  BY DEF FilledBy
<1>5. RepairsAreReal(e, found \cup {o}, o)
  BY <1>2, <1>3, <1>4 DEF RepairsAreReal
<1> QED BY <1>5

(* It is restored *)
LEMMA TradeRestored ==
    ASSUME NEW e \in Trade \cup {NoTrade}, NEW kept \in SUBSET (Trade \cup {NoTrade}),
           NEW written \in SUBSET kept, NEW o \in Orders,
           NEW views \in SUBSET (Trade \cup {NoTrade}), NEW found,
           TradeInv(e, kept, written, o, views, found), e = NoTrade, NEW s \in kept
    PROVE  TradeInv(s, kept, written, o, views, found)
<1> USE DEF TradeInv
<1>1. Real(s, kept, o) /\ NewLeavesNoTrace(s, kept, o)
  BY DEF Real, NewLeavesNoTrace
<1>2. EngineIsAhead(s, kept) /\ OneToRestore(s, kept, written)
  <2>1. \A f \in kept : Advances(f, s)
    <3> TAKE f \in kept
    <3>1. CASE f = NoTrade \/ s = NoTrade
      BY <3>1 DEF Advances
    <3>2. CASE f # NoTrade /\ s # NoTrade
      BY <3>2, AdvancesFrom DEF OneToRestore
    <3> QED BY <3>1, <3>2
  <2> QED BY <2>1 DEF EngineIsAhead, OneToRestore
<1>3. ViewsAreBehind(s, views) /\ RepairsAreReal(s, found, o)
  BY DEF ViewsAreBehind, RepairsAreReal
<1> QED BY <1>1, <1>2, <1>3

(* It is made *)
LEMMA TradeMade ==
    ASSUME NEW e \in Trade \cup {NoTrade}, NEW kept \in SUBSET (Trade \cup {NoTrade}),
           NEW written \in SUBSET kept, NEW o \in Orders,
           NEW views \in SUBSET (Trade \cup {NoTrade}), NEW found,
           TradeInv(e, kept, written, o, views, found), o = "new"
    PROVE  TradeInv(NewTrade, kept, written, "none", views, found) /\ e = NoTrade
<1> USE DEF TradeInv
<1>1. e = NoTrade /\ \A f \in kept : f = NoTrade
  BY DEF NewLeavesNoTrace
<1>2. NewTrade \in Trade /\ NewTrade # NoTrade
  <2>1. NewTrade \in Trade
    BY DEF NewTrade, Trade, Phases
  <2> QED BY <2>1, NoTradeAssumption
<1>3. Real(NewTrade, kept, "none") /\ NewLeavesNoTrace(NewTrade, kept, "none")
  BY <1>1 DEF Real, NewLeavesNoTrace, Sound, NewTrade, FilledBy
<1>4. EngineIsAhead(NewTrade, kept) /\ OneToRestore(NewTrade, kept, written)
  BY <1>1, <1>2 DEF EngineIsAhead, OneToRestore, Advances
<1>5. ViewsAreBehind(NewTrade, views) /\ RepairsAreReal(NewTrade, found, "none")
  BY <1>1 DEF ViewsAreBehind, RepairsAreReal
<1> QED BY <1>1, <1>3, <1>4, <1>5

(* It moves on: what was behind it still is *)
LEMMA TradeMovesOn ==
    ASSUME NEW e \in Trade \cup {NoTrade}, NEW kept \in SUBSET (Trade \cup {NoTrade}),
           NEW written \in SUBSET kept, NEW o \in Orders,
           NEW views \in SUBSET (Trade \cup {NoTrade}), NEW found,
           TradeInv(e, kept, written, o, views, found),
           e # NoTrade, NEW g \in Trade, NEW o2 \in Orders \ {"new"}, Advances(e, g),
           Sound(g), g.filled <= FilledBy(o2), \A f \in kept : f # NoTrade => f.filled <= FilledBy(o2),
           \A f \in found \cap {"partial", "filled"} :
              g.phase # "WAITING_ENTRY" /\ FilledBy(f) <= FilledBy(o2)
    PROVE  TradeInv(g, kept, written, o2, views, found)
<1> USE DEF TradeInv
<1>1. g # NoTrade /\ e \in Trade
  BY NoTradeAssumption
<1>2. Real(g, kept, o2) /\ NewLeavesNoTrace(g, kept, o2)
  BY DEF Real, NewLeavesNoTrace
<1>3. \A f \in Trade \cup {NoTrade} : Advances(f, e) => Advances(f, g)
  BY <1>1, AdvancesOn
<1>4. EngineIsAhead(g, kept) /\ OneToRestore(g, kept, written)
  BY <1>1, <1>3 DEF EngineIsAhead, OneToRestore
<1>5. ViewsAreBehind(g, views) /\ RepairsAreReal(g, found, o2)
  BY <1>1, <1>3 DEF ViewsAreBehind, RepairsAreReal
<1> QED BY <1>2, <1>4, <1>5

LEMMA FilledByRange == \A o : FilledBy(o) \in 0..2
BY DEF FilledBy

(* Its entry is sent.  What is kept waits for its entry too. *)
LEMMA TradeTriggered ==
    ASSUME NEW e \in Trade \cup {NoTrade}, NEW kept \in SUBSET (Trade \cup {NoTrade}),
           NEW written \in SUBSET kept, NEW o \in Orders,
           NEW views \in SUBSET (Trade \cup {NoTrade}), NEW found,
           TradeInv(e, kept, written, o, views, found),
           e # NoTrade, e.phase = "WAITING_ENTRY", NEW o2 \in Orders \ {"new"}
    PROVE  /\ TradeInv([e EXCEPT !.phase = "ENTRY_PENDING"], kept, written, o2, views, found)
           /\ Advances(e, [e EXCEPT !.phase = "ENTRY_PENDING"])
<1> DEFINE g == [e EXCEPT !.phase = "ENTRY_PENDING"]
<1>1. e \in Trade /\ g \in Trade /\ g.phase = "ENTRY_PENDING" /\ g.filled = e.filled /\ e.filled = 0
  BY DEF Trade, Phases, TradeInv, Real, Sound
<1>2. Advances(e, g)
  BY <1>1 DEF Advances, Rank, Trade
<1>3. \A f \in kept : f # NoTrade => f.filled = 0
  <2> TAKE f \in kept
  <2> HAVE f # NoTrade
  <2>1. f \in Trade /\ Rank[f.phase] <= 1 /\ Sound(f)
    BY DEF TradeInv, EngineIsAhead, Advances, Real, Rank
  <2>2. f.phase = "WAITING_ENTRY"
    BY <2>1 DEF Trade, Phases, Rank
  <2> QED BY <2>1, <2>2 DEF Sound
<1>4. found \cap {"partial", "filled"} = {}
  BY DEF TradeInv, RepairsAreReal
<1>5. Sound(g) /\ g.filled <= FilledBy(o2) /\ \A f \in kept : f # NoTrade => f.filled <= FilledBy(o2)
  BY <1>1, <1>3, FilledByRange DEF Sound
<1> HIDE DEF g
<1>6. TradeInv(g, kept, written, o2, views, found)
  BY <1>1, <1>2, <1>4, <1>5, TradeMovesOn
<1> QED BY <1>2, <1>6 DEF g

(* It ends *)
LEMMA TradeEnded ==
    ASSUME NEW e \in Trade \cup {NoTrade}, NEW kept \in SUBSET (Trade \cup {NoTrade}),
           NEW written \in SUBSET kept, NEW o \in Orders,
           NEW views \in SUBSET (Trade \cup {NoTrade}), NEW found,
           TradeInv(e, kept, written, o, views, found), e # NoTrade
    PROVE  /\ TradeInv([e EXCEPT !.phase = "ENDED"], kept, written, o, views, found)
           /\ Advances(e, [e EXCEPT !.phase = "ENDED"])
<1> DEFINE g == [e EXCEPT !.phase = "ENDED"]
<1>1. e \in Trade /\ g \in Trade /\ g.phase = "ENDED" /\ g.filled = e.filled
  BY DEF Trade, Phases
<1>2. Advances(e, g)
  BY <1>1 DEF Advances, Rank, Trade, Phases
<1>3. o # "new" /\ Sound(g) /\ g.filled <= FilledBy(o)
  BY <1>1 DEF TradeInv, NewLeavesNoTrace, Real, Sound
<1>4. \A f \in kept : f # NoTrade => f.filled <= FilledBy(o)
  BY DEF TradeInv, Real
<1>5. \A f \in found \cap {"partial", "filled"} : FilledBy(f) <= FilledBy(o)
  BY DEF TradeInv, RepairsAreReal
<1> HIDE DEF g
<1>6. TradeInv(g, kept, written, o, views, found)
  BY <1>1, <1>2, <1>3, <1>4, <1>5, TradeMovesOn
<1> QED BY <1>2, <1>6 DEF g

(* The broker fills more of its order *)
LEMMA TradeFilled ==
    ASSUME NEW e \in Trade \cup {NoTrade}, NEW kept \in SUBSET (Trade \cup {NoTrade}),
           NEW written \in SUBSET kept, NEW o \in Orders,
           NEW views \in SUBSET (Trade \cup {NoTrade}), NEW found,
           TradeInv(e, kept, written, o, views, found),
           o \in {"open", "partial"}, NEW o2 \in {"partial", "filled"}
    PROVE  TradeInv(e, kept, written, o2, views, found)
<1>1. FilledBy(o) <= FilledBy(o2) /\ FilledBy(o) \in Int /\ FilledBy(o2) \in Int
  BY DEF FilledBy
<1>2. \A f \in kept \cup {e} : f # NoTrade => f.filled \in Int
  BY DEF Trade
<1>3. Real(e, kept, o2)
  BY <1>1, <1>2 DEF TradeInv, Real
<1>4. NewLeavesNoTrace(e, kept, o2)
  BY DEF NewLeavesNoTrace
<1>5. RepairsAreReal(e, found, o2)
  BY <1>1, FilledByRange DEF TradeInv, RepairsAreReal
<1> QED BY <1>3, <1>4, <1>5 DEF TradeInv

(* Its entry is answered: of an entry that is pending nothing was filled *)
LEMMA TradeAnswered ==
    ASSUME NEW e \in Trade \cup {NoTrade}, NEW kept \in SUBSET (Trade \cup {NoTrade}),
           NEW written \in SUBSET kept, NEW o \in Orders,
           NEW views \in SUBSET (Trade \cup {NoTrade}), NEW found,
           TradeInv(e, kept, written, o, views, found),
           e # NoTrade, e.phase = "ENTRY_PENDING",
           NEW answer \in {"open", "partial", "filled"}, FilledBy(answer) <= FilledBy(o)
    PROVE  /\ TradeInv(Answered(e, answer), kept, written, o, views, found)
           /\ Advances(e, Answered(e, answer))
<1> DEFINE g == Answered(e, answer)
<1>1. e \in Trade /\ g \in Trade /\ e.filled = 0
  BY AnsweredType DEF TradeInv, Real, Sound
<1>2. /\ g.phase \in {"ENTRY_PENDING", "ACTIVE"} /\ g.filled <= FilledBy(o) /\ Sound(g)
      /\ 0 <= g.filled
  <2>1. CASE answer = "open"
    <3>1. g = [e EXCEPT !.id = TRUE]
      BY <2>1 DEF Answered
    <3>2. g.phase = "ENTRY_PENDING" /\ g.filled = 0
      BY <1>1, <3>1 DEF Trade
    <3> QED BY <3>2, FilledByRange DEF Sound
  <2>2. CASE answer # "open"
    <3>1. g.phase = "ACTIVE" /\ g.filled = FilledBy(answer)
      BY <2>2 DEF Answered
    <3> QED BY <3>1, FilledByRange DEF Sound
  <2> QED BY <2>1, <2>2
<1>3. Advances(e, g)
  BY <1>1, <1>2 DEF Advances, Rank
<1>4. o # "new"
  BY DEF TradeInv, NewLeavesNoTrace
<1>5. \A f \in kept : f # NoTrade => f.filled <= FilledBy(o)
  BY DEF TradeInv, Real
<1>6. \A f \in found \cap {"partial", "filled"} : FilledBy(f) <= FilledBy(o)
  BY DEF TradeInv, RepairsAreReal
<1> HIDE DEF g
<1>7. TradeInv(g, kept, written, o, views, found)
  BY <1>1, <1>2, <1>3, <1>4, <1>5, <1>6, TradeMovesOn
<1> QED BY <1>3, <1>7 DEF g

(* It is repaired, late or not *)
LEMMA TradeRepaired ==
    ASSUME NEW e \in Trade \cup {NoTrade}, NEW kept \in SUBSET (Trade \cup {NoTrade}),
           NEW written \in SUBSET kept, NEW o \in Orders,
           NEW views \in SUBSET (Trade \cup {NoTrade}), NEW found,
           TradeInv(e, kept, written, o, views, found),
           NEW answer \in found \cap {"partial", "filled"}
    PROVE  /\ TradeInv(Repaired(e, answer), kept, written, o, views, found)
           /\ e # NoTrade /\ Repaired(e, answer) # NoTrade /\ Advances(e, Repaired(e, answer))
<1> DEFINE g == Repaired(e, answer)
<1>1. e \in Trade /\ e # NoTrade /\ e.phase # "WAITING_ENTRY" /\ FilledBy(answer) <= FilledBy(o)
  BY DEF TradeInv, RepairsAreReal
<1>2. g \in Trade
  <2>1. CASE e.phase = "ENTRY_PENDING"
    BY <1>1, <2>1, AnsweredType DEF Repaired
  <2>2. CASE e.phase # "ENTRY_PENDING"
    <3>1. g = [e EXCEPT !.filled = IF e.filled < FilledBy(answer) THEN FilledBy(answer) ELSE e.filled]
      BY <1>1, <2>2 DEF Repaired
    <3> QED BY <1>1, <3>1, FilledByRange DEF Trade
  <2> QED BY <2>1, <2>2
<1>3. g # NoTrade
  BY <1>2, NoTradeAssumption
<1>4. CASE e.phase = "ENTRY_PENDING"
  BY <1>1, <1>3, <1>4, TradeAnswered DEF Repaired
<1>5. CASE e.phase # "ENTRY_PENDING"
  <2>1. g = [e EXCEPT !.filled = IF e.filled < FilledBy(answer) THEN FilledBy(answer) ELSE e.filled]
    BY <1>1, <1>5 DEF Repaired
  <2>2. /\ g.phase = e.phase /\ e.filled <= g.filled
        /\ g.filled = e.filled \/ g.filled = FilledBy(answer)
    BY <1>1, <2>1, FilledByRange DEF Trade
  <2>3. Advances(e, g) /\ Sound(g)
    BY <1>1, <1>5, <2>2 DEF Advances, Rank, Trade, Phases, Sound
  <2>4. e.filled <= FilledBy(o) /\ o # "new"
    BY <1>1 DEF TradeInv, Real, NewLeavesNoTrace
  <2>5. \A f \in kept : f # NoTrade => f.filled <= FilledBy(o)
    BY DEF TradeInv, Real
  <2>6. \A f \in found \cap {"partial", "filled"} : FilledBy(f) <= FilledBy(o)
    BY DEF TradeInv, RepairsAreReal
  <2> HIDE DEF g
  <2>7. TradeInv(g, kept, written, o, views, found)
    BY <1>1, <1>2, <2>2, <2>3, <2>4, <2>5, <2>6, TradeMovesOn
  <2> QED BY <1>1, <1>3, <2>3, <2>7 DEF g
<1> QED BY <1>4, <1>5

-----------------------------------------------------------------------------
(* The invariant of the trades, action by action *)
Holds(t) == TradeInv(engine[t], Kept(t), Written(t), order[t], Views(t), Found(t))

(* No step but the end of the process sets a trade back *)
Forward(t) == engine[t] # NoTrade => engine'[t] # NoTrade /\ Advances(engine[t], engine'[t])

LEMMA TradeTypes ==
    ASSUME RunType, DataType, NEW t \in Trades
    PROVE  /\ engine[t] \in Trade \cup {NoTrade} /\ order[t] \in Orders
           /\ Kept(t) \in SUBSET (Trade \cup {NoTrade}) /\ Written(t) \in SUBSET Kept(t)
           /\ Views(t) \in SUBSET (Trade \cup {NoTrade})
           /\ snapshot[t] \in Kept(t)
<1>1. \A i \in DOMAIN writing : writing[i].trades[t] \in Trade \cup {NoTrade}
  <2> TAKE i \in DOMAIN writing
  <2>1. writing[i] \in Captures
    BY DEF DataType
  <2> QED BY <2>1 DEF Captures, Book
<1>2. \A r \in Runs : run[r].loaded[t] \in Trade \cup {NoTrade}
  BY DEF RunType, RunRecord, Book
<1>3. \A a \in Reconcilers : recon[a].views[t] \in Trade \cup {NoTrade}
  <2> TAKE a \in Reconcilers
  <2>1. recon[a] \in Reconciliations
    BY DEF DataType
  <2> QED BY <2>1 DEF Reconciliations, Book
<1>4. engine[t] \in Trade \cup {NoTrade} /\ order[t] \in Orders /\ snapshot[t] \in Trade \cup {NoTrade}
  BY DEF DataType, Book
<1> QED BY <1>1, <1>2, <1>3, <1>4 DEF Kept, Written, Views

(* Nothing new is known of trade t *)
Forgets(t) ==
    Less(Kept(t)', Written(t)', Views(t)', Found(t)', Kept(t), Written(t), Views(t), Found(t))

LEMMA ForgetsHolds ==
    ASSUME RunType, DataType, NEW t \in Trades, Holds(t), Forgets(t),
           engine'[t] = engine[t], order'[t] = order[t]
    PROVE  Holds(t)' /\ Forward(t)
<1>1. TradeInv(engine[t], Kept(t)', Written(t)', order[t], Views(t)', Found(t)')
  BY TradeTypes, TradeForgotten DEF Holds, Forgets
<1>2. Forward(t)
  BY TradeTypes, AdvancesFrom DEF Forward
<1> QED BY <1>1, <1>2 DEF Holds

(* What captures, runs and reconciliations know, when they stay as they are *)
LEMMA KeptRests ==
    ASSUME UNCHANGED <<snapshot, writing>>, LoadedKept, NEW t \in Trades
    PROVE  Kept(t)' = Kept(t) /\ Written(t)' = Written(t)
BY DEF LoadedKept, Kept, Written

LEMMA ReconRests ==
    ASSUME UNCHANGED recon, NEW t \in Trades
    PROVE  Views(t)' = Views(t) /\ Found(t)' = Found(t)
BY DEF Views, Found

LEMMA ReconResets ==
    ASSUME DataType, NEW a \in Reconcilers, recon' = [recon EXCEPT ![a] = recon'[a]],
           recon'[a] \in {NoRecon, [NoRecon EXCEPT !.pc = "done"]}, NEW t \in Trades
    PROVE  /\ Views(t)' \in SUBSET (Views(t) \cup {NoTrade})
           /\ Found(t)' \in SUBSET (Found(t) \cup {"no report", "none"})
<1>1. recon'[a].views[t] = NoTrade /\ recon'[a].found[t] = "no report"
  <2>1. recon'[a].views = NoTrades /\ recon'[a].found = NoReports
    BY DEF NoRecon
  <2> QED BY <2>1 DEF NoTrades, NoReports
<1>2. \A b \in Reconcilers \ {a} : recon'[b] = recon[b]
  BY DEF DataType
<1>3. Views(t)' \subseteq Views(t) \cup {NoTrade}
  BY <1>1, <1>2, ZenonT(30) DEF Views
<1>4. Found(t)' \subseteq Found(t) \cup {"no report"}
  <2>1. \A b \in Reconcilers : recon'[b].found[t] \in Found(t) \cup {"no report"}
    BY <1>1, <1>2 DEF Found
  <2> QED BY <2>1 DEF Found
<1> QED BY <1>3, <1>4

(* Steps of runs, saves, and others that do not touch a trade *)
LEMMA QuietHolds ==
    ASSUME RunType, DataType, NEW t \in Trades, Holds(t), LoadedKept,
           UNCHANGED <<engine, order, writing, snapshot, recon>>
    PROVE  Holds(t)' /\ Forward(t)
<1>1. Forgets(t)
  BY KeptRests, ReconRests DEF Forgets, Less
<1> QED BY <1>1, ForgetsHolds

LEMMA DropsHolds ==
    ASSUME RunType, DataType, NEW t \in Trades, Holds(t), NEW a \in Reconcilers, ReconDrops(a)
    PROVE  Holds(t)' /\ Forward(t)
<1>1. LoadedKept /\ UNCHANGED <<engine, order, writing, snapshot>>
  BY DEF ReconDrops, LoadedKept
<1>2. Forgets(t)
  BY <1>1, KeptRests, ReconResets DEF Forgets, Less, ReconDrops
<1> QED BY <1>1, <1>2, ForgetsHolds

LEMMA SavedHolds ==
    ASSUME RunType, DataType, NEW t \in Trades, Holds(t), NEW i \in DOMAIN writing,
           \/ CaptureSaved(i) /\ LoadedKept
           \/ SaveFails(i)
    PROVE  Holds(t)' /\ Forward(t)
<1>1. /\ LoadedKept /\ UNCHANGED <<engine, order, recon>>
      /\ snapshot' \in {snapshot, writing[i].trades}
      /\ \A k \in DOMAIN writing' : \E j \in DOMAIN writing : writing'[k].trades = writing[j].trades
  <2>1. CASE CaptureSaved(i) /\ LoadedKept
    <3>1. writing' = AfterSave(i) /\ snapshot' = LatestAfter(i) /\ UNCHANGED <<engine, order, recon>>
      BY <2>1 DEF CaptureSaved, engineVars
    <3>2. \A k \in DOMAIN writing' : \E j \in DOMAIN writing : writing'[k].trades = writing[j].trades
      BY <3>1, AfterSaveType DEF DataType
    <3> QED BY <2>1, <3>1, <3>2 DEF LatestAfter
  <2>2. CASE SaveFails(i)
    <3>1. \A k \in DOMAIN writing' : \E j \in DOMAIN writing : writing'[k].trades = writing[j].trades
      BY <2>2, WritingLess DEF SaveFails, DataType
    <3> QED BY <2>2, <3>1 DEF SaveFails, RunMoves
  <2> QED BY <2>1, <2>2
<1>2. Written(t)' \subseteq Written(t)
  BY <1>1 DEF Written
<1>3. snapshot'[t] \in Kept(t)
  BY <1>1 DEF Kept, Written
<1>4. Kept(t)' \subseteq Kept(t)
  BY <1>1, <1>2, <1>3 DEF Kept, LoadedKept
<1>5. Forgets(t)
  BY <1>1, <1>2, <1>4, ReconRests DEF Forgets, Less
<1> QED BY <1>1, <1>5, ForgetsHolds

LEMMA DeadHolds ==
    ASSUME RunType, DataType, NEW t \in Trades, Holds(t), Dead, UNCHANGED <<order, snapshot>>
    PROVE  Holds(t)'
<1>1. /\ Kept(t)' \in SUBSET {snapshot[t], NoTrade} /\ Written(t)' = {}
  BY DEF Dead, Kept, Written, NoRun, NoTrades
<1>2. Views(t)' \in SUBSET {NoTrade} /\ Found(t)' \in SUBSET {"no report"}
  BY DEF Dead, Views, Found, NoRecon, NoTrades, NoReports
<1>3. TradeInv(NoTrade, {snapshot[t], NoTrade}, {}, order[t], {NoTrade}, {"no report"})
  BY TradeTypes, TradeLost DEF Holds
<1>4. {snapshot[t], NoTrade} \in SUBSET (Trade \cup {NoTrade})
  BY TradeTypes
<1>5. Less(Kept(t)', Written(t)', Views(t)', Found(t)',
            {snapshot[t], NoTrade}, {}, {NoTrade}, {"no report"})
  BY <1>1, <1>2 DEF Less
<1>6. TradeInv(NoTrade, Kept(t)', Written(t)', order[t], Views(t)', Found(t)')
  BY <1>3, <1>4, <1>5, TradeTypes, TradeForgotten
<1>7. engine'[t] = NoTrade
  BY DEF Dead, NoTrades
<1> QED BY <1>6, <1>7 DEF Holds

(* Captures *)
LEMMA CapturedHolds ==
    ASSUME RunType, DataType, NEW t \in Trades, Holds(t), LoadedKept,
           NEW owner \in Runs \cup {"timer"}, writing' = Append(writing, Capture(owner)),
           UNCHANGED <<engine, order, snapshot>>,
           Views(t)' \in SUBSET (Views(t) \cup {NoTrade}),
           Found(t)' \in SUBSET (Found(t) \cup {"no report", "none"})
    PROVE  Holds(t)' /\ Forward(t)
<1> DEFINE c == Capture(owner)
<1>1. \A k \in DOMAIN writing' : writing'[k] = c \/ \E j \in DOMAIN writing : writing'[k] = writing[j]
  <2>1. writing \in Seq(Captures) /\ c \in Captures
    BY CaptureType DEF DataType
  <2> HIDE DEF c
  <2>2. \A k \in DOMAIN Append(writing, c) :
           Append(writing, c)[k] = c \/ \E j \in DOMAIN writing : Append(writing, c)[k] = writing[j]
    BY <2>1, WritingMore
  <2>3. writing' = Append(writing, c)
    BY DEF c
  <2> QED BY <2>2, <2>3
<1>2. Written(t)' \in SUBSET (Written(t) \cup {engine[t]})
  <2>1. c.trades[t] = engine[t]
    BY DEF Capture
  <2> HIDE DEF c
  <2>2. \A k \in DOMAIN writing' : writing'[k].trades[t] \in Written(t) \cup {engine[t]}
    <3> TAKE k \in DOMAIN writing'
    <3>1. CASE writing'[k] = c
      BY <2>1, <3>1
    <3>2. CASE \E j \in DOMAIN writing : writing'[k] = writing[j]
      BY <3>2 DEF Written
    <3> QED BY <1>1, <3>1, <3>2
  <2> QED BY <2>2 DEF Written
<1> HIDE DEF c
<1>3. Kept(t)' \in SUBSET (Kept(t) \cup {engine[t], NoTrade})
  <2>1. \A r \in Runs : run'[r].loaded[t] \in Kept(t)
    BY DEF Kept, LoadedKept
  <2>2. snapshot[t] \in Kept(t) /\ Written(t) \in SUBSET Kept(t)
    BY TradeTypes
  <2>3. snapshot' = snapshot
    OBVIOUS
  <2>4. \A f \in Kept(t)' : f = snapshot'[t] \/ f \in Written(t)' \/ \E r \in Runs : f = run'[r].loaded[t]
    BY DEF Kept
  <2> QED BY <1>2, <2>1, <2>2, <2>3, <2>4
<1>4. Written(t)' \in SUBSET Kept(t)' /\ Kept(t)' \in SUBSET (Trade \cup {NoTrade})
  <2>1. Written(t)' \in SUBSET Kept(t)'
    BY DEF Kept
  <2>2. Kept(t) \in SUBSET (Trade \cup {NoTrade}) /\ engine[t] \in Trade \cup {NoTrade}
    BY TradeTypes
  <2> QED BY <1>3, <2>1, <2>2
<1>5. TradeInv(engine[t], Kept(t)', Written(t)', order[t], Views(t), Found(t))
  BY <1>2, <1>3, TradeTypes, TradeCaptured DEF Holds
<1>6. Less(Kept(t)', Written(t)', Views(t)', Found(t)', Kept(t)', Written(t)', Views(t), Found(t))
  BY DEF Less
<1>7. TradeInv(engine[t], Kept(t)', Written(t)', order[t], Views(t)', Found(t)')
  BY <1>4, <1>5, <1>6, TradeTypes, TradeForgotten
<1> QED BY <1>7, TradeTypes, AdvancesFrom DEF Holds, Forward

(* A run loads the snapshot, or restores a trade *)
LEMMA RestoringHolds ==
    ASSUME RunType, DataType, NEW t \in Trades, Holds(t), NEW r \in Runs,
           LoadSnapshot(r) \/ RestoreTrade(r)
    PROVE  Holds(t)' /\ Forward(t)
<1> USE DEF RunOnly, RunUnchanged
<1>1. UNCHANGED <<order, snapshot, writing, recon>>
  BY DEF LoadSnapshot, RestoreTrade
<1>2. Views(t)' = Views(t) /\ Found(t)' = Found(t) /\ Written(t)' = Written(t)
  BY <1>1, ReconRests DEF Written
<1>3. run[r] \in RunRecord /\ run[r].loaded \in Book /\ run[r].loaded[t] \in Kept(t)
  BY DEF RunType, RunRecord, Kept
<1>4. CASE LoadSnapshot(r)
  <2>1. run'[r].loaded = snapshot /\ \A q \in Runs \ {r} : run'[q] = run[q]
    BY <1>4 DEF LoadSnapshot, RunType
  <2>2. Kept(t)' \in SUBSET Kept(t)
    BY <1>1, <1>2, <2>1 DEF Kept
  <2>3. Forgets(t)
    BY <1>2, <2>2 DEF Forgets, Less
  <2>4. engine' = engine
    BY <1>4 DEF LoadSnapshot
  <2> QED BY <1>1, <2>3, <2>4, ForgetsHolds
<1>5. CASE RestoreTrade(r)
  <2>1. PICK u \in Trades :
          /\ run[r].loaded[u] # NoTrade
          /\ run' = [run EXCEPT ![r].loaded[u] = NoTrade]
          /\ engine' = [engine EXCEPT ![u] = Restored(@, run[r].loaded[u])]
    BY <1>5 DEF RestoreTrade
  <2>2. /\ run'[r].loaded[t] \in {run[r].loaded[t], NoTrade}
        /\ \A q \in Runs \ {r} : run'[q] = run[q]
    BY <1>3, <2>1 DEF RunType, RunRecord, Book
  <2>3. Kept(t)' \in SUBSET (Kept(t) \cup {NoTrade})
    BY <1>1, <1>2, <2>2 DEF Kept
  <2>4. Forgets(t)
    BY <1>2, <2>3 DEF Forgets, Less
  <2>5. CASE engine'[t] = engine[t]
    BY <1>1, <2>4, <2>5, ForgetsHolds
  <2>6. CASE engine'[t] # engine[t]
    <3>1. t = u /\ engine[t] = NoTrade /\ engine'[t] = run[r].loaded[t]
      BY <2>1, <2>6 DEF Restored, DataType, Book
    <3>2. TradeInv(engine'[t], Kept(t), Written(t), order[t], Views(t), Found(t))
      BY <1>3, <3>1, TradeTypes, TradeRestored DEF Holds
    <3>3. engine'[t] \in Trade \cup {NoTrade}
      BY <1>3, <3>1 DEF Book
    <3>4. TradeInv(engine'[t], Kept(t)', Written(t)', order[t], Views(t)', Found(t)')
      BY <2>4, <3>2, <3>3, TradeTypes, TradeForgotten DEF Forgets
    <3> QED BY <1>1, <3>1, <3>4 DEF Holds, Forward
  <2> QED BY <2>5, <2>6
<1> QED BY <1>4, <1>5

(* The engine and the broker *)
LEMMA EngineHolds ==
    ASSUME RunType, DataType, NEW t \in Trades, Holds(t), NEW u \in Trades,
           CreateTrade(u) \/ TriggerEntry(u) \/ EntryAnswered(u) \/ BrokerFills(u) \/ TradeEnds(u)
    PROVE  Holds(t)' /\ Forward(t)
<1>1. UNCHANGED <<writing, snapshot, run, recon>>
  BY DEF CreateTrade, TriggerEntry, EntryAnswered, BrokerFills, TradeEnds, EngineOnly, runVars
<1>2. /\ Kept(t)' = Kept(t) /\ Written(t)' = Written(t)
      /\ Views(t)' = Views(t) /\ Found(t)' = Found(t)
  BY <1>1 DEF Kept, Written, Views, Found
<1>3. engine \in [Trades -> Trade \cup {NoTrade}] /\ order \in [Trades -> Orders]
  BY DEF DataType, Book
<1>4. CASE t # u
  <2>1. engine'[t] = engine[t] /\ order'[t] = order[t]
    BY <1>3, <1>4 DEF CreateTrade, TriggerEntry, EntryAnswered, BrokerFills, TradeEnds
  <2>2. Forgets(t)
    BY <1>2 DEF Forgets, Less
  <2> QED BY <2>1, <2>2, ForgetsHolds
<1>5. CASE t = u
  <2> SUFFICES TradeInv(engine'[t], Kept(t), Written(t), order'[t], Views(t), Found(t)) /\ Forward(t)
    BY <1>2 DEF Holds
  <2>1. CASE CreateTrade(t)
    <3>1. order[t] = "new" /\ order'[t] = "none" /\ engine'[t] = NewTrade
      BY <1>3, <2>1 DEF CreateTrade
    <3> QED BY <3>1, TradeTypes, TradeMade DEF Holds, Forward
  <2>2. CASE TriggerEntry(t)
    <3>1. /\ engine[t] # NoTrade /\ engine[t].phase = "WAITING_ENTRY"
          /\ engine'[t] = [engine[t] EXCEPT !.phase = "ENTRY_PENDING"]
      BY <1>3, <2>2 DEF TriggerEntry, Open
    <3>2. order'[t] \in Orders \ {"new"}
      BY <1>3, <2>2 DEF TriggerEntry
    <3>3. [engine[t] EXCEPT !.phase = "ENTRY_PENDING"] # NoTrade
      <4> DEFINE g == [engine[t] EXCEPT !.phase = "ENTRY_PENDING"]
      <4>0. engine[t] \in Trade
        BY <3>1, TradeTypes
      <4>1. g \in Trade
        BY <4>0 DEF Trade, Phases
      <4> HIDE DEF g
      <4>2. g # NoTrade
        BY <4>1, NoTradeAssumption
      <4> QED BY <4>2 DEF g
    <3>4. /\ TradeInv([engine[t] EXCEPT !.phase = "ENTRY_PENDING"],
                      Kept(t), Written(t), order'[t], Views(t), Found(t))
          /\ Advances(engine[t], [engine[t] EXCEPT !.phase = "ENTRY_PENDING"])
      BY <3>1, <3>2, TradeTypes, TradeTriggered DEF Holds
    <3> QED BY <3>1, <3>3, <3>4 DEF Forward
  <2>3. CASE EntryAnswered(t)
    <3>1. engine[t] # NoTrade /\ engine[t].phase = "ENTRY_PENDING" /\ order'[t] = order[t]
      BY <2>3 DEF EntryAnswered, Open
    <3>2. CASE engine'[t] = [engine[t] EXCEPT !.phase = "ENDED"]
      <4>1. [engine[t] EXCEPT !.phase = "ENDED"] \in Trade
        BY <1>3, <3>1 DEF Trade, Phases
      <4> QED BY <3>1, <3>2, <4>1, NoTradeAssumption, TradeTypes, TradeEnded DEF Holds, Forward
    <3>3. CASE order[t] \in {"open", "partial", "filled"} /\ engine'[t] = Answered(engine[t], order[t])
      <4>1. Answered(engine[t], order[t]) \in Trade
        BY <1>3, <3>1, <3>3, AnsweredType
      <4>2. FilledBy(order[t]) <= FilledBy(order[t])
        BY FilledByRange
      <4> QED BY <3>1, <3>3, <4>1, <4>2, NoTradeAssumption, TradeTypes, TradeAnswered DEF Holds, Forward
    <3> QED BY <1>3, <2>3, <3>2, <3>3 DEF EntryAnswered
  <2>4. CASE BrokerFills(t)
    <3>1. /\ order[t] \in {"open", "partial"} /\ order'[t] \in {"partial", "filled"}
          /\ engine'[t] = engine[t]
      BY <1>3, <2>4 DEF BrokerFills
    <3> QED BY <3>1, TradeTypes, TradeFilled, AdvancesFrom DEF Holds, Forward
  <2>5. CASE TradeEnds(t)
    <3>1. /\ engine[t] # NoTrade /\ order'[t] = order[t]
          /\ engine'[t] = [engine[t] EXCEPT !.phase = "ENDED"]
      BY <1>3, <2>5 DEF TradeEnds, Open
    <3>2. [engine[t] EXCEPT !.phase = "ENDED"] \in Trade
      BY <1>3, <3>1 DEF Trade, Phases
    <3> QED BY <3>1, <3>2, NoTradeAssumption, TradeTypes, TradeEnded DEF Holds, Forward
  <2> QED BY <1>5, <2>1, <2>2, <2>3, <2>4, <2>5
<1> QED BY <1>4, <1>5
(* Reconciliations: one of them changes what it looks at and will replay *)
LEMMA ReconChanges ==
    ASSUME NEW a \in Reconcilers, \A b \in Reconcilers \ {a} : recon'[b] = recon[b],
           NEW t \in Trades, NEW v, recon'[a].views[t] \in {v} \cup Views(t),
           NEW f, recon'[a].found[t] \in {f} \cup Found(t)
    PROVE  Views(t)' \in SUBSET (Views(t) \cup {v}) /\ Found(t)' \in SUBSET (Found(t) \cup {f})
<1>1. \A b \in Reconcilers : recon'[b].views[t] \in Views(t) \cup {v}
  BY DEF Views
<1>2. \A b \in Reconcilers : recon'[b].found[t] \in Found(t) \cup {f}
  BY DEF Found
<1> QED BY <1>1, <1>2, SMTT(20) DEF Views, Found

LEMMA BeginReconHolds ==
    ASSUME RunType, DataType, NEW t \in Trades, Holds(t), NEW a \in Reconcilers, BeginRecon(a)
    PROVE  Holds(t)' /\ Forward(t)
<1> DEFINE v == IF Open(engine[t]) THEN engine[t] ELSE NoTrade
<1>1. UNCHANGED <<engine, order, run, snapshot, writing>>
  BY DEF BeginRecon, ReconOnly, runVars
<1>2. Kept(t)' = Kept(t) /\ Written(t)' = Written(t)
  BY <1>1 DEF Kept, Written
<1>3. /\ recon'[a].views[t] = v /\ recon'[a].found[t] = "no report"
      /\ \A b \in Reconcilers \ {a} : recon'[b] = recon[b]
  BY DEF BeginRecon, DataType, NoReports
<1>4. v \in {engine[t], NoTrade}
  OBVIOUS
<1> HIDE DEF v
<1>5. /\ Views(t)' \in SUBSET (Views(t) \cup {engine[t], NoTrade})
      /\ Found(t)' \in SUBSET (Found(t) \cup {"no report"})
  <2>1. \A b \in Reconcilers : recon'[b].views[t] \in Views(t) \cup {engine[t], NoTrade}
    BY <1>3, <1>4 DEF Views
  <2>2. \A b \in Reconcilers : recon'[b].found[t] \in Found(t) \cup {"no report"}
    BY <1>3 DEF Found
  <2> QED BY <2>1, <2>2 DEF Views, Found
<1>6. TradeInv(engine[t], Kept(t), Written(t), order[t], Views(t)', Found(t)')
  BY <1>4, <1>5, TradeTypes, TradeViewed DEF Holds
<1>7. Forward(t)
  BY <1>1, TradeTypes, AdvancesFrom DEF Forward
<1> QED BY <1>1, <1>2, <1>6, <1>7 DEF Holds

LEMMA FetchHolds ==
    ASSUME RunType, DataType, NEW t \in Trades, Holds(t), NEW a \in Reconcilers, Fetch(a)
    PROVE  Holds(t)' /\ Forward(t)
<1>1. UNCHANGED <<engine, order, run, snapshot, writing>>
  BY DEF Fetch, ReconOnly, runVars
<1>2. Kept(t)' = Kept(t) /\ Written(t)' = Written(t)
  BY <1>1 DEF Kept, Written
<1>3. Forward(t)
  BY <1>1, TradeTypes, AdvancesFrom DEF Forward
<1>4. recon[a].views \in Book /\ recon[a].views[t] \in Views(t)
      /\ recon[a].found[t] \in Found(t) /\ recon[a] \in Reconciliations
  BY DEF DataType, Reconciliations, Views, Found
<1>5. PICK u \in Trades :
        /\ recon[a].views[u] # NoTrade
        /\ \/ recon' = [[recon EXCEPT ![a].views[u] = NoTrade] EXCEPT ![a].found[u] =
                            IF SafeToRepair(recon[a].views[u], order[u]) THEN order[u] ELSE "none"]
           \/ recon' = [recon EXCEPT ![a].views[u] = NoTrade]
  BY DEF Fetch
<1> DEFINE replay == IF SafeToRepair(recon[a].views[u], order[u]) THEN order[u] ELSE "none"
<1>6. /\ recon'[a].views[t] \in {NoTrade} \cup Views(t)
      /\ recon'[a].found[t] \in Found(t) \/ (u = t /\ recon'[a].found[t] = replay)
      /\ \A b \in Reconcilers \ {a} : recon'[b] = recon[b]
  <2> DEFINE x == [recon[a] EXCEPT !.views = [recon[a].views EXCEPT ![u] = NoTrade]]
             y == [x EXCEPT !.found = [recon[a].found EXCEPT ![u] = replay]]
  <2>1. recon' = [recon EXCEPT ![a] = x] \/ recon' = [recon EXCEPT ![a] = y]
    BY <1>4, <1>5 DEF DataType, Reconciliations
  <2>2. x.views[t] \in {recon[a].views[t], NoTrade} /\ x.found[t] = recon[a].found[t]
    BY <1>4 DEF Reconciliations, Book
  <2>3. y.views[t] = x.views[t] /\ (y.found[t] = recon[a].found[t] \/ (u = t /\ y.found[t] = replay))
    BY <1>4 DEF Reconciliations
  <2> HIDE DEF x, y
  <2>4. recon'[a] \in {x, y} /\ \A b \in Reconcilers \ {a} : recon'[b] = recon[b]
    BY <2>1 DEF DataType
  <2> QED BY <1>4, <2>2, <2>3, <2>4
<1> HIDE DEF replay
<1>7. CASE recon'[a].found[t] \in {"none"} \cup Found(t)
  <2>1. Views(t)' \in SUBSET (Views(t) \cup {NoTrade}) /\ Found(t)' \in SUBSET (Found(t) \cup {"none"})
    BY <1>6, <1>7, ReconChanges
  <2>2. Forgets(t)
    BY <1>2, <2>1 DEF Forgets, Less
  <2> QED BY <1>1, <2>2, ForgetsHolds
<1>8. CASE recon'[a].found[t] \notin {"none"} \cup Found(t)
  <2>1. u = t /\ replay = order[t] /\ SafeToRepair(recon[a].views[t], order[t])
    BY <1>6, <1>8 DEF replay
  <2>2. TradeInv(engine[t], Kept(t), Written(t), order[t], Views(t), Found(t) \cup {order[t]})
    BY <1>4, <1>5, <2>1, TradeTypes, TradeLookedUp DEF Holds
  <2>3. /\ Views(t)' \in SUBSET (Views(t) \cup {NoTrade})
        /\ Found(t)' \in SUBSET (Found(t) \cup {order[t]})
    <3>1. recon'[a].found[t] \in {order[t]} \cup Found(t)
      BY <1>6, <2>1
    <3> QED BY <1>6, <3>1, ReconChanges
  <2>4. Less(Kept(t), Written(t), Views(t)', Found(t)',
             Kept(t), Written(t), Views(t), Found(t) \cup {order[t]})
    BY <2>3 DEF Less
  <2>5. TradeInv(engine[t], Kept(t), Written(t), order[t], Views(t)', Found(t)')
    BY <2>2, <2>4, TradeTypes, TradeForgotten
  <2> QED BY <1>1, <1>2, <1>3, <2>5 DEF Holds
<1> QED BY <1>7, <1>8

LEMMA ApplyHolds ==
    ASSUME RunType, DataType, NEW t \in Trades, Holds(t), NEW a \in Reconcilers, Apply(a)
    PROVE  Holds(t)' /\ Forward(t)
<1>1. UNCHANGED <<order, run, snapshot, writing>>
  BY DEF Apply, ReconOnly, runVars
<1>2. Kept(t)' = Kept(t) /\ Written(t)' = Written(t)
  BY <1>1 DEF Kept, Written
<1>3. /\ recon[a] \in Reconciliations
      /\ recon[a].found \in [Trades -> {"no report", "none", "partial", "filled"}]
      /\ recon[a].views[t] \in Views(t) /\ recon[a].found[t] \in Found(t)
  BY DEF DataType, Reconciliations, Views, Found
<1>4. PICK u \in Trades :
        /\ recon[a].found[u] # "no report"
        /\ engine' = IF recon[a].found[u] = "none" THEN engine
                     ELSE [engine EXCEPT ![u] = Repaired(@, recon[a].found[u])]
        /\ recon' = [recon EXCEPT ![a].found[u] = "no report"]
  BY DEF Apply
<1>5. /\ recon'[a].views[t] \in {NoTrade} \cup Views(t)
      /\ recon'[a].found[t] \in {"no report"} \cup Found(t)
      /\ \A b \in Reconcilers \ {a} : recon'[b] = recon[b]
  <2> DEFINE x == [recon[a] EXCEPT !.found = [recon[a].found EXCEPT ![u] = "no report"]]
  <2>1. recon' = [recon EXCEPT ![a] = x]
    BY <1>3, <1>4 DEF DataType, Reconciliations
  <2>2. x.views = recon[a].views /\ x.found[t] \in {recon[a].found[t], "no report"}
    BY <1>3 DEF Reconciliations
  <2> HIDE DEF x
  <2>3. recon'[a] = x /\ \A b \in Reconcilers \ {a} : recon'[b] = recon[b]
    BY <2>1 DEF DataType
  <2> QED BY <1>3, <2>2, <2>3
<1>6. /\ Views(t)' \in SUBSET (Views(t) \cup {NoTrade})
      /\ Found(t)' \in SUBSET (Found(t) \cup {"no report"})
  BY <1>5, ReconChanges
<1>7. Less(Kept(t)', Written(t)', Views(t)', Found(t)', Kept(t), Written(t), Views(t), Found(t))
  BY <1>2, <1>6 DEF Less
<1>8. CASE engine'[t] = engine[t]
  BY <1>1, <1>7, <1>8, ForgetsHolds DEF Forgets
<1>9. CASE engine'[t] # engine[t]
  <2> DEFINE answer == recon[a].found[t]
  <2>1. u = t /\ answer # "none" /\ engine'[t] = Repaired(engine[t], answer)
    BY <1>4, <1>9 DEF DataType, Book
  <2>2. answer \in Found(t) \cap {"partial", "filled"}
    BY <1>3, <1>4, <2>1
  <2> HIDE DEF answer
  <2>3. /\ TradeInv(Repaired(engine[t], answer), Kept(t), Written(t), order[t], Views(t), Found(t))
        /\ Repaired(engine[t], answer) # NoTrade /\ Advances(engine[t], Repaired(engine[t], answer))
    BY <2>2, TradeTypes, TradeRepaired DEF Holds
  <2>4. Repaired(engine[t], answer) \in Trade \cup {NoTrade}
    BY <2>2, TradeTypes, RepairedType
  <2>5. TradeInv(engine'[t], Kept(t)', Written(t)', order[t], Views(t)', Found(t)')
    BY <1>7, <2>1, <2>3, <2>4, TradeTypes, TradeForgotten
  <2> QED BY <1>1, <2>1, <2>3, <2>5 DEF Holds, Forward
<1> QED BY <1>8, <1>9

LEMMA ReportedHolds ==
    ASSUME RunType, DataType, NEW t \in Trades, Holds(t), NEW a \in Reconcilers, Reported(a)
    PROVE  Holds(t)' /\ Forward(t)
<1>1. LoadedKept /\ UNCHANGED <<engine, order, writing, snapshot>>
  BY DEF Reported, ReconOnly, runVars, LoadedKept
<1>2. /\ recon' = [recon EXCEPT ![a] = recon'[a]]
      /\ recon'[a] \in {NoRecon, [NoRecon EXCEPT !.pc = "done"]}
  BY DEF Reported, DataType
<1>3. Forgets(t)
  BY <1>1, <1>2, KeptRests, ReconResets DEF Forgets, Less
<1> QED BY <1>1, <1>3, ForgetsHolds
-----------------------------------------------------------------------------
(* The invariant is inductive *)
LEMMA DataParts == DataInv <=> \A t \in Trades : Holds(t)
BY DEF DataInv, Holds

LEMMA DataPartsPrimed == DataInv' <=> \A t \in Trades : Holds(t)'
BY DEF DataInv, Holds

LEMMA NextHolds ==
    ASSUME TypeOK, RunInv, DownIsIdle, Next, NEW t \in Trades, Holds(t)
    PROVE  Holds(t)' /\ (process' # "down" => Forward(t))
<1>1. RunType /\ DataType
  BY TypeParts
<1>2. ASSUME NEW r \in Runs, Call(r) \/ RunStep(r)
      PROVE  Holds(t)' /\ Forward(t)
  <2>1. CASE LoadSnapshot(r) \/ RestoreTrade(r)
    BY <1>1, <2>1, RestoringHolds
  <2>2. CASE PositionsVerified(r)
    <3>1. /\ LoadedKept /\ recon' = [recon EXCEPT ![r] = NoRecon]
          /\ writing' = Append(writing, Capture(r)) /\ UNCHANGED <<engine, order, snapshot>>
      BY <1>1, <2>2, CapturingType DEF RunMoves, PositionsVerified, engineVars
    <3>2. r \in Reconcilers /\ recon'[r] = NoRecon /\ recon' = [recon EXCEPT ![r] = recon'[r]]
      BY <1>1, <3>1 DEF Reconcilers, DataType
    <3>3. /\ Views(t)' \in SUBSET (Views(t) \cup {NoTrade})
          /\ Found(t)' \in SUBSET (Found(t) \cup {"no report", "none"})
      BY <1>1, <3>2, ReconResets
    <3> QED BY <1>1, <3>1, <3>3, CapturedHolds
  <2>3. CASE RunEffect
    BY <1>1, <2>3, QuietHolds DEF RunEffect, RunMoves
  <2> QED BY <1>1, <1>2, <2>1, <2>2, <2>3, RunActions DEF RunStep
<1>3. ASSUME Dead, UNCHANGED <<order, snapshot>>
      PROVE  Holds(t)' /\ process' = "down"
  BY <1>1, <1>3, DeadHolds DEF Dead
<1>4. ASSUME NEW a \in Reconcilers, BeginRecon(a) \/ ReconStep(a)
      PROVE  Holds(t)' /\ (process' # "down" => Forward(t))
  <2>1. CASE ReconFails(a)
    BY <1>1, <1>3, <2>1, ReconFailsType, DropsHolds
  <2> QED BY <1>1, <1>4, <2>1, BeginReconHolds, FetchHolds, ApplyHolds, ReportedHolds DEF ReconStep
<1>5. CASE WriteStep
  <2>1. PICK i \in DOMAIN writing : CaptureSaved(i) \/ CaptureFails(i)
    BY <1>5 DEF WriteStep
  <2>2. CASE CaptureSaved(i)
    BY <1>1, <2>2, SavingType, SavedHolds DEF RunMoves
  <2>3. CASE CaptureFails(i)
    BY <1>1, <1>3, <2>3, FailingType, SavedHolds
  <2> QED BY <2>1, <2>2, <2>3
<1>6. CASE EngineStep
  BY <1>1, <1>6, EngineHolds DEF EngineStep
<1>7. CASE Crash \/ Exit
  BY <1>1, <1>3, <1>7, EndedType
<1>8. CASE Start \/ Stop \/ MorningStartup
  BY <1>1, <1>8, QuietType, QuietHolds DEF Quiet
<1>9. CASE TimerFires
  <2>1. LoadedKept /\ UNCHANGED <<engine, order, snapshot, recon>>
    BY <1>1, <1>9, TimerType DEF RunMoves, TimerFires, engineVars
  <2>2. /\ Views(t)' \in SUBSET (Views(t) \cup {NoTrade})
        /\ Found(t)' \in SUBSET (Found(t) \cup {"no report", "none"})
    BY <2>1, ReconRests
  <2>3. writing' = Append(writing, Capture("timer"))
    BY <1>9 DEF TimerFires
  <2> QED BY <1>1, <2>1, <2>2, <2>3, CapturedHolds
<1> QED BY <1>2, <1>4, <1>5, <1>6, <1>7, <1>8, <1>9 DEF Next

LEMMA InitInv == Init => IInv
<1> SUFFICES ASSUME Init PROVE IInv
  OBVIOUS
<1>1. NoRun \in RunRecord /\ NoRecon \in Reconciliations
  <2>1. 0 \in 0..MaxRetries
    BY RecoveryAssumption
  <2> QED BY <2>1, EmptyType, NoReconType DEF NoRun, RunRecord, Places
<1>2. RunType
  BY <1>1 DEF Init, RunType, Processes, States
<1>3. DataType
  <2>1. writing \in Seq(Captures)
    BY DEF Init
  <2>2. /\ engine \in Book /\ snapshot \in Book /\ order \in [Trades -> Orders]
        /\ recon \in [Reconcilers -> Reconciliations]
    BY <1>1, EmptyType DEF Init, Orders
  <2> QED BY <2>1, <2>2 DEF Init, DataType
<1>4. RunInv /\ DownIsIdle
  BY DEF Init, RunInv, DownIsIdle, NoRun, NoRecon
<1>5. ASSUME NEW t \in Trades PROVE Holds(t)
  <2>1. engine[t] = NoTrade /\ order[t] = "new"
    BY DEF Init, NoTrades
  <2>2. Kept(t) \in SUBSET {NoTrade} /\ Written(t) = {}
    BY DEF Init, Kept, Written, NoTrades, NoRun
  <2>3. Views(t) \in SUBSET {NoTrade} /\ Found(t) \in SUBSET {"no report"}
    BY DEF Init, Views, Found, NoRecon, NoTrades, NoReports
  <2> QED BY <2>1, <2>2, <2>3 DEF Holds, TradeInv, Real, NewLeavesNoTrace, EngineIsAhead,
             OneToRestore, ViewsAreBehind, RepairsAreReal, Sound, Advances
<1> QED BY <1>2, <1>3, <1>4, <1>5, TypeParts, DataParts DEF IInv

LEMMA NextInv ==
    ASSUME IInv, [Next]_vars
    PROVE  IInv'
<1>1. CASE Next
  <2>1. TypeOK' /\ RunInv' /\ DownIsIdle'
    BY <1>1, NextTyped DEF IInv
  <2>2. ASSUME NEW t \in Trades PROVE Holds(t)'
    BY <1>1, DataParts, NextHolds DEF IInv
  <2> QED BY <2>1, <2>2, DataPartsPrimed DEF IInv
<1>2. CASE UNCHANGED vars
  <2>1. TypeOK' /\ RunInv' /\ DownIsIdle'
    BY <1>2 DEF IInv, TypeOK, RunInv, DownIsIdle, Active, vars, engineVars, captureVars, runVars, bounds
  <2>2. DataInv'
    BY <1>2 DEF IInv, DataInv, Kept, Written, Views, Found, vars, engineVars, captureVars, runVars, bounds
  <2> QED BY <2>1, <2>2 DEF IInv
<1> QED BY <1>1, <1>2

(* The invariant holds in every state: the types; a run under way whenever  *)
(* the machine or the flag says so; nothing of a process outlives it; and   *)
(* for each trade what the snapshot, the captures, the runs and the         *)
(* reconciliations know lags behind the engine.                             *)
THEOREM Inductive == Spec => []IInv
BY InitInv, NextInv, PTL DEF Spec

(* Every variable of the recovery keeps its type, whatever fails            *)
THEOREM TypeCorrect == Spec => []TypeOK
<1>1. IInv => TypeOK
  BY DEF IInv
<1> QED BY <1>1, Inductive, PTL

(* However the runs of RecoveryCoordinator overlap and end - done, failed,  *)
(* or thrown out of the catch - with no run under way `running` is down and *)
(* the machine can be reset, so that the next one can start                 *)
(* (recovery-coordinator.service.ts:105-320).                               *)
THEOREM RunsCanStart == Spec => []NextRunCanStart
<1>1. IInv => NextRunCanStart
  BY DEF IInv, RunInv, NextRunCanStart, CanReset, Active
<1> QED BY <1>1, Inductive, PTL

(* The engine never believes to have bought what the broker has not filled, *)
(* whatever is lost in a crash, restored from an old snapshot, answered     *)
(* late, or repaired from an old look at the broker                         *)
(* (trade.aggregate.ts:373-422, auto-repair.service.ts:43-113).             *)
THEOREM FillsReal == Spec => []FillsAreReal
<1>1. IInv => FillsAreReal
  BY DEF IInv, DataInv, TradeInv, Real, FillsAreReal
<1> QED BY <1>1, Inductive, PTL

(* While the process lives no step drops a trade of the engine or sets it   *)
(* back: neither a run that restores an older snapshot over it nor a repair *)
(* that arrives late (trading-engine.service.ts:128-133).                   *)
THEOREM NeverBack == Spec => TradesNeverGoBack
<1>1. ASSUME IInv, [Next]_vars
      PROVE  [process' # "down" =>
                 \A t \in Trades : engine[t] # NoTrade =>
                     engine'[t] # NoTrade /\ Advances(engine[t], engine'[t])]_vars
  <2>1. CASE Next
    <3>1. ASSUME NEW t \in Trades, process' # "down" PROVE Forward(t)
      BY <1>1, <2>1, <3>1, DataParts, NextHolds DEF IInv
    <3> QED BY <3>1 DEF Forward
  <2> QED BY <1>1, <2>1
<1> QED BY <1>1, Inductive, PTL DEF Spec, TradesNeverGoBack
-----------------------------------------------------------------------------
(* The captures that wait for their save *)

(* Where the k-th of a sequence was, before its i-th was removed *)
Past(i, k) == IF k < i THEN k ELSE k + 1

LEMMA PastIndex ==
    ASSUME NEW n \in Nat, NEW i \in 1..n
    PROVE  /\ n - 1 \in Nat
           /\ \A k \in 1..(n - 1) : Past(i, k) \in 1..n /\ Past(i, k) # i /\ (k < i <=> Past(i, k) < i)
           /\ \A k, l \in 1..(n - 1) : k < l => Past(i, k) < Past(i, l)
           /\ \A j \in 1..n : j # i => \E k \in 1..(n - 1) : Past(i, k) = j
<1>1. ASSUME NEW j \in 1..n, j # i PROVE \E k \in 1..(n - 1) : Past(i, k) = j
  <2>1. CASE j < i
    <3>1. j \in 1..(n - 1) /\ Past(i, j) = j
      BY <2>1 DEF Past
    <3> QED BY <3>1
  <2>2. CASE j > i
    <3>1. j - 1 \in 1..(n - 1) /\ Past(i, j - 1) = j
      BY <2>2 DEF Past
    <3> QED BY <3>1
  <2> QED BY <1>1, <2>1, <2>2
<1> QED BY <1>1 DEF Past

LEMMA RemoveAtIndex ==
    ASSUME NEW S, NEW s \in Seq(S), NEW i \in 1..Len(s)
    PROVE  /\ RemoveAt(s, i) \in Seq(S) /\ DOMAIN RemoveAt(s, i) = 1..(Len(s) - 1)
           /\ \A k \in 1..(Len(s) - 1) : RemoveAt(s, i)[k] = s[Past(i, k)]
<1> DEFINE a == SubSeq(s, 1, i - 1)
           b == SubSeq(s, i + 1, Len(s))
<1>1. /\ Len(s) \in Nat /\ i - 1 \in Int /\ i + 1 \in Int /\ Len(s) \in Int /\ 1 \in Int
      /\ \A k \in 1..Len(s) : s[k] \in S
  OBVIOUS
<1>2. a \in Seq(S) /\ Len(a) = i - 1 /\ \A k \in 1..(i - 1) : a[k] = s[k]
  <2>1. \A k \in 1..(i - 1) : s[k] \in S
    BY <1>1
  <2>2. /\ a \in Seq(S)
        /\ Len(a) = IF 1 <= i - 1 THEN i - 1 - 1 + 1 ELSE 0
        /\ \A k \in 1..(i - 1 - 1 + 1) : a[k] = s[1 + k - 1]
    BY <1>1, <2>1, SubSeqProperties
  <2> QED BY <2>2
<1>3. b \in Seq(S) /\ Len(b) = Len(s) - i /\ \A k \in 1..(Len(s) - i) : b[k] = s[i + k]
  <2>1. \A k \in (i + 1)..Len(s) : s[k] \in S
    BY <1>1
  <2>2. /\ b \in Seq(S)
        /\ Len(b) = IF i + 1 <= Len(s) THEN Len(s) - (i + 1) + 1 ELSE 0
        /\ \A k \in 1..(Len(s) - (i + 1) + 1) : b[k] = s[(i + 1) + k - 1]
    BY <1>1, <2>1, SubSeqProperties
  <2> QED BY <1>1, <2>2
<1> HIDE DEF a, b
<1>4. /\ a \o b \in Seq(S) /\ Len(a \o b) = Len(a) + Len(b)
      /\ \A k \in 1..(Len(a) + Len(b)) : (a \o b)[k] = IF k <= Len(a) THEN a[k] ELSE b[k - Len(a)]
  BY <1>2, <1>3, ConcatProperties
<1>5. RemoveAt(s, i) = a \o b
  BY DEF RemoveAt, a, b
<1>6. DOMAIN (a \o b) = 1..(Len(s) - 1)
  BY <1>1, <1>2, <1>3, <1>4
<1>7. ASSUME NEW k \in 1..(Len(s) - 1) PROVE (a \o b)[k] = s[Past(i, k)]
  <2>1. CASE k < i
    BY <1>1, <1>2, <1>3, <1>4, <2>1 DEF Past
  <2>2. CASE ~(k < i)
    <3>1. k - Len(a) \in 1..(Len(s) - i) /\ i + (k - Len(a)) = k + 1
      BY <1>1, <1>2, <2>2
    <3>2. (a \o b)[k] = b[k - Len(a)]
      BY <1>1, <1>2, <1>3, <1>4, <2>2
    <3>3. b[k - Len(a)] = s[i + (k - Len(a))]
      BY <1>3, <3>1
    <3> QED BY <2>2, <3>1, <3>2, <3>3 DEF Past
  <2> QED BY <2>1, <2>2
<1> QED BY <1>4, <1>5, <1>6, <1>7

(* The i-th capture is gone; those before it are stale if it was saved. *)
Shrinks(i, saved) ==
    /\ DOMAIN writing' = 1..(Len(writing) - 1)
    /\ \A k \in 1..(Len(writing) - 1) :
         /\ writing'[k].trades = writing[Past(i, k)].trades
         /\ writing'[k].owner = writing[Past(i, k)].owner
         /\ writing'[k].stale <=> (writing[Past(i, k)].stale \/ (saved /\ k < i))

LEMMA SavedShrinks ==
    ASSUME writing \in Seq(Captures), NEW i \in DOMAIN writing, writing' = AfterSave(i)
    PROVE  Shrinks(i, TRUE)
<1> DEFINE marked == [j \in DOMAIN writing |-> [writing[j] EXCEPT !.stale = @ \/ j < i]]
<1>1. DOMAIN writing = 1..Len(writing) /\ Len(writing) \in Nat
  OBVIOUS
<1>2. ASSUME NEW j \in DOMAIN writing
      PROVE  /\ marked[j] \in Captures /\ marked[j].trades = writing[j].trades
             /\ marked[j].owner = writing[j].owner
             /\ marked[j].stale <=> (writing[j].stale \/ j < i)
  <2>1. writing[j] \in Captures /\ (writing[j].stale \/ j < i) \in BOOLEAN
    BY <1>1
  <2>2. marked[j] = [writing[j] EXCEPT !.stale = writing[j].stale \/ j < i]
    OBVIOUS
  <2> QED BY <2>1, <2>2 DEF Captures
<1>3. marked \in Seq(Captures) /\ Len(marked) = Len(writing)
  <2>1. marked \in [1..Len(writing) -> Captures]
    BY <1>1, <1>2
  <2>2. marked \in Seq(Captures)
    BY <1>1, <2>1, SeqDef
  <2>3. DOMAIN marked = 1..Len(writing)
    BY <1>1
  <2> HIDE DEF marked
  <2>4. Len(marked) = Len(writing)
    BY <1>1, <2>2, <2>3
  <2> QED BY <2>2, <2>4
<1>4. writing' = RemoveAt(marked, i)
  BY DEF AfterSave
<1> HIDE DEF marked
<1>5. /\ DOMAIN writing' = 1..(Len(writing) - 1)
      /\ \A k \in 1..(Len(writing) - 1) : writing'[k] = marked[Past(i, k)]
  <2>1. i \in 1..Len(marked)
    BY <1>1, <1>3
  <2>2. /\ DOMAIN RemoveAt(marked, i) = 1..(Len(marked) - 1)
        /\ \A k \in 1..(Len(marked) - 1) : RemoveAt(marked, i)[k] = marked[Past(i, k)]
    BY <1>3, <2>1, RemoveAtIndex
  <2> QED BY <1>3, <1>4, <2>2
<1>6. \A k \in 1..(Len(writing) - 1) : Past(i, k) \in DOMAIN writing /\ (k < i <=> Past(i, k) < i)
  BY <1>1, PastIndex
<1> QED BY <1>2, <1>5, <1>6 DEF Shrinks

LEMMA FailedShrinks ==
    ASSUME writing \in Seq(Captures), NEW i \in DOMAIN writing, writing' = RemoveAt(writing, i)
    PROVE  Shrinks(i, FALSE)
BY RemoveAtIndex DEF Shrinks

(* Process steps that leave the captures alone, with the engine as covered    *)
(* as it was, or with the timer set                                           *)
LEMMA CapturesRest ==
    ASSUME CaptureInv, UNCHANGED <<writing, snapshot>>,
           process' \in {"boot", "serving"} /\ ~debounce' =>
              \/ engine' = NoTrades
              \/ /\ process \in {"boot", "serving"} /\ ~debounce
                 /\ \A book \in {snapshot} \cup {writing[i].trades : i \in DOMAIN writing} :
                       Covers(book) => \A t \in Trades :
                          engine'[t] # NoTrade => SameCapture(engine'[t], book[t]),
           process' = "down" => engine' = NoTrades
    PROVE  CaptureInv'
<1>1. CapturesInOrder'
  BY DEF CaptureInv, CapturesInOrder
<1>2. ASSUME process' \in {"boot", "serving"}, ~debounce' PROVE Covered'
  <2>1. CASE engine' = NoTrades
    BY <2>1 DEF Covered, Covers, NoTrades
  <2>2. CASE engine' # NoTrades
    BY <1>2, <2>2 DEF CaptureInv, Covered, Covers
  <2> QED BY <2>1, <2>2
<1> QED BY <1>1, <1>2 DEF CaptureInv

LEMMA PublishedCaptures ==
    ASSUME CaptureInv, UNCHANGED <<writing, snapshot>>, GoesOn, process # "down", Published
    PROVE  CaptureInv'
BY CapturesRest DEF GoesOn, Published

LEMMA SameCaptures ==
    ASSUME CaptureInv, UNCHANGED <<writing, snapshot, engine, debounce>>,
           GoesOn \/ (process # "down" /\ process' = "stopping")
    PROVE  CaptureInv'
<1>1. process' = "down" => engine' = NoTrades
  BY DEF CaptureInv, GoesOn
<1>2. \A book : Covers(book) => \A t \in Trades :
         engine'[t] # NoTrade => SameCapture(engine'[t], book[t])
  BY DEF Covers
<1> QED BY <1>1, <1>2, CapturesRest DEF GoesOn

LEMMA DeadCaptures ==
    ASSUME Dead
    PROVE  CaptureInv'
BY DEF Dead, CaptureInv, CapturesInOrder

(* A capture is taken: the engine is ahead of all that is kept. *)
LEMMA CapturedInOrder ==
    ASSUME RunType, DataType, CaptureInv, \A t \in Trades : Holds(t), GoesOn, process # "down",
           NEW owner \in Runs \cup {"timer"}, writing' = Append(writing, Capture(owner)),
           UNCHANGED <<engine, snapshot>>,
           owner = "timer" \/ debounce' = debounce
    PROVE  CaptureInv'
<1> DEFINE n == Len(writing)
           c == Capture(owner)
<1>1. writing \in Seq(Captures) /\ c \in Captures /\ n \in Nat /\ DOMAIN writing = 1..n
  BY CaptureType DEF DataType
<1>2. c.trades = engine /\ c.owner = owner /\ c.stale = FALSE
  BY DEF Capture
<1> HIDE DEF c
<1>3. DOMAIN writing' = 1..(n + 1) /\ writing'[n + 1] = c /\ \A k \in 1..n : writing'[k] = writing[k]
  <2>1. writing' = Append(writing, c)
    BY DEF c
  <2>2. /\ Len(Append(writing, c)) = n + 1 /\ Append(writing, c) \in Seq(Captures)
        /\ \A k \in 1..n : Append(writing, c)[k] = writing[k]
        /\ Append(writing, c)[n + 1] = c
    BY <1>1, AppendProperties
  <2>3. DOMAIN Append(writing, c) = 1..(n + 1)
    BY <1>1, <2>2
  <2> QED BY <2>1, <2>2, <2>3
<1> HIDE DEF n
<1>4. \A t \in Trades : /\ Advances(snapshot[t], engine[t])
                        /\ \A k \in 1..n : Advances(writing[k].trades[t], engine[t])
  BY <1>1 DEF Holds, TradeInv, EngineIsAhead, Kept, Written
<1>5. CapturesInOrder'
  <2>1. \A i, j \in 1..(n + 1) : i < j /\ writing'[j].stale => writing'[i].stale
    BY <1>1, <1>2, <1>3 DEF CaptureInv, CapturesInOrder
  <2>2. ASSUME NEW i \in 1..(n + 1), NEW j \in 1..(n + 1), i < j, NEW t \in Trades
        PROVE  Advances(writing'[i].trades[t], writing'[j].trades[t])
    <3>1. i \in 1..n
      BY <1>1, <2>2
    <3>2. CASE j = n + 1
      BY <1>2, <1>3, <1>4, <3>1, <3>2
    <3>3. CASE j # n + 1
      <4>1. j \in 1..n
        BY <1>1, <3>3
      <4>2. Advances(writing[i].trades[t], writing[j].trades[t])
        BY <1>1, <2>2, <3>1, <4>1 DEF CaptureInv, CapturesInOrder
      <4> QED BY <1>3, <3>1, <4>1, <4>2
    <3> QED BY <3>2, <3>3
  <2>3. ASSUME NEW i \in 1..(n + 1), ~writing'[i].stale, NEW t \in Trades
        PROVE  Advances(snapshot[t], writing'[i].trades[t])
    <3>1. CASE i = n + 1
      BY <1>2, <1>3, <1>4, <3>1
    <3>2. CASE i # n + 1
      BY <1>1, <1>3, <2>3, <3>2 DEF CaptureInv, CapturesInOrder
    <3> QED BY <3>1, <3>2
  <2> QED BY <1>3, <2>1, <2>2, <2>3 DEF CapturesInOrder
<1>6. \A t \in Trades : SameCapture(engine[t], engine[t])
  BY DEF SameCapture
<1>7. ASSUME process' \in {"boot", "serving"}, ~debounce' PROVE Covered'
  <2>1. CASE owner = "timer"
    <3>1. \A i \in 1..(n + 1) : n + 1 <= i => i = n + 1
      BY <1>1
    <3> QED BY <1>1, <1>2, <1>3, <1>6, <2>1, <3>1 DEF Covered, Covers
  <2>2. CASE owner # "timer"
    <3>1. process \in {"boot", "serving"} /\ ~debounce
      BY <1>7, <2>2 DEF GoesOn
    <3>2. CASE Covers(snapshot) /\ \A i \in DOMAIN writing : ~writing[i].stale => Covers(writing[i].trades)
      BY <1>1, <1>2, <1>3, <1>6, <3>2 DEF Covered, Covers
    <3>3. ASSUME NEW k \in DOMAIN writing, writing[k].owner = "timer", ~writing[k].stale,
                 \A i \in DOMAIN writing : k <= i => Covers(writing[i].trades)
          PROVE  Covered'
      BY <1>1, <1>2, <1>3, <1>6, <3>3 DEF Covered, Covers
    <3> QED BY <3>1, <3>2, <3>3 DEF CaptureInv, Covered
  <2> QED BY <2>1, <2>2
<1> QED BY <1>5, <1>7 DEF CaptureInv, GoesOn

(* A capture is gone. *)
LEMMA ShrinksInOrder ==
    ASSUME DataType, CaptureInv, NEW i \in DOMAIN writing, NEW saved \in BOOLEAN, Shrinks(i, saved),
           snapshot' = IF saved /\ ~writing[i].stale THEN writing[i].trades ELSE snapshot
    PROVE  CapturesInOrder'
<1> DEFINE n == Len(writing)
<1>1. n \in Nat /\ DOMAIN writing = 1..n /\ i \in 1..n /\ n - 1 \in Nat
  BY DEF DataType
<1>2. DOMAIN writing' = 1..(n - 1)
  BY DEF Shrinks
<1>3. /\ \A k \in 1..(n - 1) : Past(i, k) \in 1..n /\ Past(i, k) # i /\ (k < i <=> Past(i, k) < i)
      /\ \A k, l \in 1..(n - 1) : k < l => Past(i, k) < Past(i, l)
  BY <1>1, PastIndex
<1>4. \A k \in 1..(n - 1) :
         /\ writing'[k].trades = writing[Past(i, k)].trades
         /\ writing'[k].stale <=> (writing[Past(i, k)].stale \/ (saved /\ k < i))
  BY DEF Shrinks
<1>5. /\ \A j, k \in 1..n : j < k /\ writing[k].stale => writing[j].stale
      /\ \A j, k \in 1..n : j < k =>
           \A t \in Trades : Advances(writing[j].trades[t], writing[k].trades[t])
      /\ \A k \in 1..n : ~writing[k].stale =>
           \A t \in Trades : Advances(snapshot[t], writing[k].trades[t])
  BY <1>1 DEF CaptureInv, CapturesInOrder
<1> HIDE DEF n
<1>6. ASSUME NEW k \in 1..(n - 1), NEW l \in 1..(n - 1), k < l, writing'[l].stale
      PROVE  writing'[k].stale
  <2>1. CASE writing[Past(i, l)].stale
    BY <1>3, <1>4, <1>5, <1>6, <2>1
  <2>2. CASE saved /\ l < i
    <3>1. k < i
      BY <1>1, <1>6, <2>2
    <3> QED BY <1>4, <2>2, <3>1
  <2> QED BY <1>4, <1>6, <2>1, <2>2
<1>7. ASSUME NEW k \in 1..(n - 1), NEW l \in 1..(n - 1), k < l, NEW t \in Trades
      PROVE  Advances(writing'[k].trades[t], writing'[l].trades[t])
  BY <1>3, <1>4, <1>5, <1>7
<1>8. ASSUME NEW k \in 1..(n - 1), ~writing'[k].stale, NEW t \in Trades
      PROVE  Advances(snapshot'[t], writing'[k].trades[t])
  <2>1. ~writing[Past(i, k)].stale /\ (saved => ~(k < i))
    BY <1>4, <1>8
  <2>2. CASE saved /\ ~writing[i].stale
    <3>1. Past(i, k) \in 1..n /\ i < Past(i, k)
      BY <1>1, <1>3, <2>1, <2>2
    <3> QED BY <1>1, <1>4, <1>5, <2>2, <3>1
  <2>3. CASE ~(saved /\ ~writing[i].stale)
    BY <1>3, <1>4, <1>5, <2>1, <2>3
  <2> QED BY <2>2, <2>3
<1> QED BY <1>2, <1>6, <1>7, <1>8 DEF CapturesInOrder

LEMMA ShrinksCovered ==
    ASSUME DataType, CaptureInv, NEW i \in DOMAIN writing, NEW saved \in BOOLEAN, Shrinks(i, saved),
           snapshot' = IF saved /\ ~writing[i].stale THEN writing[i].trades ELSE snapshot,
           engine' = engine, Covered, saved \/ writing[i].owner # "timer"
    PROVE  Covered'
<1> DEFINE n == Len(writing)
<1>1. n \in Nat /\ DOMAIN writing = 1..n /\ i \in 1..n /\ n - 1 \in Nat
  BY DEF DataType
<1>2. DOMAIN writing' = 1..(n - 1)
  BY DEF Shrinks
<1>3. /\ \A k \in 1..(n - 1) : Past(i, k) \in 1..n /\ Past(i, k) # i /\ (k < i <=> Past(i, k) < i)
      /\ \A k, l \in 1..(n - 1) : k < l => Past(i, k) < Past(i, l)
      /\ \A j \in 1..n : j # i => \E k \in 1..(n - 1) : Past(i, k) = j
  BY <1>1, PastIndex
<1>4. \A k \in 1..(n - 1) :
         /\ writing'[k].trades = writing[Past(i, k)].trades
         /\ writing'[k].owner = writing[Past(i, k)].owner
         /\ writing'[k].stale <=> (writing[Past(i, k)].stale \/ (saved /\ k < i))
  BY DEF Shrinks
<1>5. \A book : Covers(book)' <=> Covers(book)
  BY DEF Covers
<1>6. \A j, k \in 1..n : j < k /\ writing[k].stale => writing[j].stale
  BY <1>1 DEF CaptureInv, CapturesInOrder
<1> HIDE DEF n
<1>7. CASE Covers(snapshot) /\ \A k \in 1..n : ~writing[k].stale => Covers(writing[k].trades)
  <2>1. Covers(snapshot')
    BY <1>1, <1>7
  <2>2. \A k \in 1..(n - 1) : ~writing'[k].stale => Covers(writing'[k].trades)
    BY <1>3, <1>4, <1>7
  <2>3. Covers(snapshot)' /\ \A k \in DOMAIN writing' : ~writing'[k].stale => Covers(writing[k].trades)'
    BY <1>2, <2>1, <2>2 DEF Covers
  <2> QED BY <2>3 DEF Covered
<1>8. ASSUME NEW k \in 1..n, writing[k].owner = "timer", ~writing[k].stale,
             \A j \in 1..n : k <= j => Covers(writing[j].trades)
      PROVE  Covered'
  <2>1. CASE saved /\ k <= i
    <3>1. ~writing[i].stale
      BY <1>1, <1>6, <1>8, <2>1
    <3>2. Covers(snapshot')
      BY <1>1, <1>8, <2>1, <3>1
    <3>3. ASSUME NEW l \in 1..(n - 1), ~writing'[l].stale PROVE Covers(writing'[l].trades)
      <4>1. ~(l < i) /\ Past(i, l) \in 1..n /\ ~(Past(i, l) < i)
        BY <1>3, <1>4, <2>1, <3>3
      <4>2. k <= Past(i, l)
        BY <1>1, <2>1, <4>1
      <4> QED BY <1>4, <1>8, <4>1, <4>2
    <3>4. Covers(snapshot)' /\ \A l \in DOMAIN writing' : ~writing'[l].stale => Covers(writing[l].trades)'
      BY <1>2, <3>2, <3>3 DEF Covers
    <3> QED BY <3>4 DEF Covered
  <2>2. CASE ~(saved /\ k <= i)
    <3>1. k # i
      BY <1>8, <2>2
    <3>2. PICK m \in 1..(n - 1) : Past(i, m) = k
      BY <1>3, <3>1
    <3>3. writing'[m].owner = "timer" /\ ~writing'[m].stale
      <4>1. ~(saved /\ m < i)
        BY <1>1, <1>3, <2>2, <3>2
      <4> QED BY <1>4, <1>8, <3>2, <4>1
    <3>4. ASSUME NEW j \in 1..(n - 1), m <= j PROVE Covers(writing'[j].trades)
      <4>1. Past(i, j) \in 1..n /\ k <= Past(i, j)
        <5>1. CASE m = j
          BY <1>3, <3>2, <5>1
        <5>2. CASE m < j
          BY <1>1, <1>3, <3>2, <5>2
        <5> QED BY <1>1, <3>4, <5>1, <5>2
      <4> QED BY <1>4, <1>8, <4>1
    <3>5. \A j \in DOMAIN writing' : m <= j => Covers(writing[j].trades)'
      BY <1>2, <3>4 DEF Covers
    <3> QED BY <1>2, <3>3, <3>5 DEF Covered
  <2> QED BY <2>1, <2>2
<1> QED BY <1>1, <1>7, <1>8 DEF Covered

LEMMA ShrinksCaptures ==
    ASSUME DataType, CaptureInv, GoesOn, process # "down",
           NEW i \in DOMAIN writing, NEW saved \in BOOLEAN, Shrinks(i, saved),
           snapshot' = IF saved /\ ~writing[i].stale THEN writing[i].trades ELSE snapshot,
           UNCHANGED <<engine, debounce>>,
           saved \/ writing[i].owner # "timer" \/ process = "stopping"
    PROVE  CaptureInv'
<1>1. CapturesInOrder'
  BY ShrinksInOrder
<1>2. ASSUME process' \in {"boot", "serving"}, ~debounce' PROVE Covered'
  <2>1. Covered /\ process \in {"boot", "serving"}
    BY <1>2 DEF CaptureInv, GoesOn
  <2> QED BY <2>1, ShrinksCovered
<1> QED BY <1>1, <1>2 DEF CaptureInv, GoesOn

(* An answer that publishes nothing *)
LEMMA AnsweredCaptures ==
    ASSUME DataType, CaptureInv, NEW t \in Trades, EntryAnswered(t), order[t] = "open",
           UNCHANGED debounce, engine' = [engine EXCEPT ![t] = Answered(@, order[t])]
    PROVE  CaptureInv'
<1>1. UNCHANGED <<process, writing, snapshot>>
  BY DEF EntryAnswered, EngineOnly
<1>2. engine[t] \in Trade /\ engine[t].phase = "ENTRY_PENDING"
  BY DEF EntryAnswered, Open, DataType, Book
<1>3. engine' = [engine EXCEPT ![t] = [engine[t] EXCEPT !.id = TRUE]]
  BY DEF Answered
<1>4. ASSUME NEW f, SameCapture(engine[t], f)
      PROVE  SameCapture([engine[t] EXCEPT !.id = TRUE], f)
  <2>1. CASE f = engine[t]
    <3>1. CASE engine[t].id = TRUE
      BY <1>2, <2>1, <3>1 DEF Trade, SameCapture
    <3>2. CASE engine[t].id = FALSE
      <4>1. f = [[engine[t] EXCEPT !.id = TRUE] EXCEPT !.id = FALSE]
        BY <1>2, <2>1, <3>2 DEF Trade
      <4>2. /\ [engine[t] EXCEPT !.id = TRUE] \in Trade
            /\ [engine[t] EXCEPT !.id = TRUE].phase = "ENTRY_PENDING"
        BY <1>2 DEF Trade
      <4> QED BY <1>2, <2>1, <4>1, <4>2, NoTradeAssumption DEF SameCapture
    <3> QED BY <1>2, <3>1, <3>2 DEF Trade
  <2>2. CASE f # NoTrade /\ f = [engine[t] EXCEPT !.id = FALSE]
    <3>1. f = [[engine[t] EXCEPT !.id = TRUE] EXCEPT !.id = FALSE]
      BY <1>2, <2>2 DEF Trade
    <3>2. /\ [engine[t] EXCEPT !.id = TRUE] \in Trade
          /\ [engine[t] EXCEPT !.id = TRUE].phase = "ENTRY_PENDING"
      BY <1>2 DEF Trade
    <3> QED BY <2>2, <3>1, <3>2, NoTradeAssumption DEF SameCapture
  <2>3. Open(engine[t])
    BY DEF EntryAnswered
  <2> QED BY <1>4, <2>1, <2>2, <2>3 DEF SameCapture
<1>5. process # "down"
  <2>1. engine[t] # NoTrade
    BY DEF EntryAnswered, Open
  <2> QED BY <2>1 DEF CaptureInv, NoTrades
<1>6. \A book : Covers(book) => \A u \in Trades :
         engine'[u] # NoTrade => SameCapture(engine'[u], book[u])
  BY <1>2, <1>3, <1>4, NoTradeAssumption DEF Covers, DataType, Book
<1> QED BY <1>1, <1>5, <1>6, CapturesRest

(* A run restores a trade that has ended: what is kept of it is the same. *)
LEMMA RestoredCaptures ==
    ASSUME RunType, DataType, CaptureInv, \A t \in Trades : Holds(t), process # "down",
           NEW r \in Runs, RestoreTrade(r)
    PROVE  CaptureInv'
<1>1. PICK t \in Trades :
        /\ run[r].loaded[t] # NoTrade
        /\ engine' = [engine EXCEPT ![t] = Restored(@, run[r].loaded[t])]
        /\ IF engine[t] = NoTrade /\ Open(run[r].loaded[t]) THEN Published ELSE UNCHANGED debounce
  BY DEF RestoreTrade
<1>2. UNCHANGED <<process, writing, snapshot>>
  BY DEF RestoreTrade, RunOnly
<1>3. CASE engine[t] = NoTrade /\ Open(run[r].loaded[t])
  BY <1>1, <1>2, <1>3, PublishedCaptures DEF GoesOn
<1>4. CASE engine[t] # NoTrade
  <2>1. engine' = engine
    BY <1>1, <1>4 DEF Restored, DataType, Book
  <2> QED BY <1>1, <1>2, <1>4, <2>1, SameCaptures DEF GoesOn
<1>5. CASE engine[t] = NoTrade /\ ~Open(run[r].loaded[t])
  <2>1. engine'[t] = run[r].loaded[t] /\ \A u \in Trades \ {t} : engine'[u] = engine[u]
    BY <1>1, <1>5 DEF Restored, DataType, Book
  <2>2. \A book \in {snapshot} \cup {writing[i].trades : i \in DOMAIN writing} :
           book[t] = NoTrade \/ book[t] = run[r].loaded[t]
    <3>1. run[r].loaded[t] \in Kept(t) /\ snapshot[t] \in Kept(t)
      BY DEF Kept
    <3>2. \A i \in DOMAIN writing : writing[i].trades[t] \in Kept(t)
      BY DEF Kept, Written
    <3>3. \A f, g \in Kept(t) : f # NoTrade /\ g # NoTrade => f = g
      BY <1>5 DEF Holds, TradeInv, OneToRestore
    <3> QED BY <1>1, <3>1, <3>2, <3>3
  <2>3. \A book \in {snapshot} \cup {writing[i].trades : i \in DOMAIN writing} :
           SameCapture(engine'[t], book[t])
    BY <1>5, <2>1, <2>2 DEF SameCapture, Open
  <2> QED BY <1>1, <1>2, <1>5, <2>1, <2>3, CapturesRest DEF Covers
<1> QED BY <1>3, <1>4, <1>5

LEMMA InitCaptures == Init => CaptureInv
BY DEF Init, CaptureInv, CapturesInOrder

LEMMA NextCaptures ==
    ASSUME IInv, CaptureInv, Next
    PROVE  CaptureInv'
<1>1. RunType /\ DataType /\ RunInv /\ DownIsIdle /\ \A t \in Trades : Holds(t)
  BY TypeParts, DataParts DEF IInv
<1>2. CASE process = "down"
  <2>1. engine = NoTrades
    BY <1>2 DEF CaptureInv
  <2>2. UNCHANGED <<engine, writing, snapshot>>
    BY <1>1, <1>2, DownStays DEF Start, BrokerFills, EngineOnly, engineVars, captureVars
  <2> QED BY <2>1, <2>2, CapturesRest
<1>3. CASE process # "down"
  <2> USE <1>1, <1>3
  <2>1. ASSUME NEW r \in Runs, Call(r) \/ RunStep(r) PROVE CaptureInv'
    <3>1. CASE LoadSnapshot(r)
      BY <3>1, SameCaptures DEF LoadSnapshot, RunOnly, RunUnchanged, GoesOn
    <3>2. CASE RestoreTrade(r)
      BY <3>2, RestoredCaptures
    <3>3. CASE PositionsVerified(r)
      <4>1. GoesOn /\ writing' = Append(writing, Capture(r))
        BY <3>3, CapturingType DEF RunMoves
      <4>2. UNCHANGED <<engine, snapshot, debounce>>
        BY <3>3 DEF PositionsVerified, engineVars
      <4> QED BY <4>1, <4>2, CapturedInOrder
    <3>4. CASE RunEffect
      BY <3>4, PublishedCaptures, SameCaptures DEF RunEffect, RunMoves
    <3> QED BY <2>1, <3>1, <3>2, <3>3, <3>4, RunActions DEF RunStep
  <2>2. ASSUME Dead PROVE CaptureInv'
    BY <2>2, DeadCaptures
  <2>3. ASSUME NEW a \in Reconcilers, BeginRecon(a) \/ ReconStep(a) PROVE CaptureInv'
    <3>1. CASE BeginRecon(a) \/ Fetch(a) \/ Reported(a)
      BY <3>1, SameCaptures DEF BeginRecon, Fetch, Reported, ReconOnly, GoesOn
    <3>2. CASE Apply(a)
      BY <3>2, PublishedCaptures DEF Apply, ReconOnly, GoesOn
    <3>3. CASE ReconFails(a)
      <4>1. \/ Dead
            \/ UNCHANGED <<process, engine, debounce, writing, snapshot>>
        BY <3>3 DEF ReconFails
      <4> QED BY <2>2, <4>1, SameCaptures DEF GoesOn
    <3> QED BY <2>3, <3>1, <3>2, <3>3 DEF ReconStep
  <2>4. CASE WriteStep
    <3>1. PICK i \in DOMAIN writing : CaptureSaved(i) \/ CaptureFails(i)
      BY <2>4 DEF WriteStep
    <3>2. CASE CaptureSaved(i)
      <4>1. GoesOn
        BY <3>2, SavingType DEF RunMoves
      <4>2. Shrinks(i, TRUE)
        BY <3>2, SavedShrinks DEF CaptureSaved, DataType
      <4>3. /\ UNCHANGED <<engine, debounce>>
            /\ snapshot' = IF TRUE /\ ~writing[i].stale THEN writing[i].trades ELSE snapshot
        BY <3>2 DEF CaptureSaved, LatestAfter, engineVars
      <4> QED BY <4>1, <4>2, <4>3, ShrinksCaptures
    <3>3. CASE CaptureFails(i) /\ ~Dead
      <4>1. GoesOn
        BY <3>3, FailingType DEF SaveFails, RunMoves
      <4>2. /\ writing[i].owner # "timer" \/ process = "stopping"
            /\ writing' = RemoveAt(writing, i)
            /\ UNCHANGED <<engine, debounce, snapshot>>
        BY <3>3 DEF CaptureFails
      <4>3. Shrinks(i, FALSE)
        BY <4>2, FailedShrinks DEF DataType
      <4>4. snapshot' = IF FALSE /\ ~writing[i].stale THEN writing[i].trades ELSE snapshot
        BY <4>2
      <4> QED BY <4>1, <4>2, <4>3, <4>4, ShrinksCaptures
    <3> QED BY <2>2, <3>1, <3>2, <3>3
  <2>5. CASE EngineStep
    <3>1. PICK t \in Trades :
            CreateTrade(t) \/ TriggerEntry(t) \/ EntryAnswered(t) \/ BrokerFills(t) \/ TradeEnds(t)
      BY <2>5 DEF EngineStep
    <3>2. UNCHANGED <<process, writing, snapshot>>
      BY <3>1 DEF CreateTrade, TriggerEntry, EntryAnswered, BrokerFills, TradeEnds, EngineOnly
    <3>3. CASE Published
      BY <3>2, <3>3, PublishedCaptures DEF GoesOn
    <3>4. CASE BrokerFills(t)
      BY <3>2, <3>4, SameCaptures DEF BrokerFills, GoesOn
    <3>5. CASE EntryAnswered(t) /\ ~Published
      BY <3>5, AnsweredCaptures DEF EntryAnswered
    <3> QED BY <3>1, <3>3, <3>4, <3>5 DEF CreateTrade, TriggerEntry, TradeEnds
  <2>6. CASE Crash \/ Exit
    BY <2>2, <2>6 DEF Crash, Exit
  <2>7. CASE Stop
    BY <2>7, CapturesRest DEF Stop, engineVars
  <2>8. CASE MorningStartup
    BY <2>8, PublishedCaptures, SameCaptures DEF MorningStartup, engineVars, GoesOn
  <2>9. CASE TimerFires
    <3>1. GoesOn /\ writing' = Append(writing, Capture("timer")) /\ UNCHANGED <<engine, snapshot>>
      BY <2>9 DEF TimerFires, engineVars, GoesOn
    <3> QED BY <3>1, CapturedInOrder
  <2>10. ~Start
    BY DEF Start
  <2> QED BY <2>1, <2>3, <2>4, <2>5, <2>6, <2>7, <2>8, <2>9, <2>10 DEF Next
<1> QED BY <1>2, <1>3

(* The captures that are being saved are in order, and with no timer set the  *)
(* engine is in the newest of them or in the snapshot, whichever saves fail   *)
(* or overtake each other (recovery-snapshot.service.ts:147-166).             *)
THEOREM CapturesInductive == Spec => []CaptureInv
<1>1. IInv /\ CaptureInv /\ [Next]_vars => CaptureInv'
  <2> SUFFICES ASSUME IInv, CaptureInv, [Next]_vars PROVE CaptureInv'
    OBVIOUS
  <2>1. CASE Next
    BY <2>1, NextCaptures
  <2>2. CASE UNCHANGED vars
    BY <2>2 DEF CaptureInv, CapturesInOrder, Covered, Covers, vars, engineVars, captureVars
  <2> QED BY <2>1, <2>2
<1> QED BY <1>1, InitCaptures, Inductive, PTL DEF Spec

(* While a trade of the engine differs from the newest capture, a capture is  *)
(* scheduled: a crash loses at most the time of the debounce.                 *)
THEOREM CapturesCover == Spec => []CaptureCovers
<1>1. IInv /\ CaptureInv => CaptureCovers
  <2> SUFFICES ASSUME IInv, CaptureInv, process \in {"boot", "serving"}, ~debounce
               PROVE  Covers(Newest)
    BY DEF CaptureCovers, Covers
  <2>1. Covered /\ writing \in Seq(Captures)
    BY DEF CaptureInv, IInv, TypeOK
  <2>2. CASE writing = <<>>
    BY <2>1, <2>2 DEF Covered, Newest
  <2>3. CASE writing # <<>>
    <3>1. Len(writing) \in DOMAIN writing /\ Last(writing) = writing[Len(writing)]
      BY <2>1, <2>3 DEF Last
    <3>2. ASSUME NEW k \in DOMAIN writing, ~writing[k].stale
          PROVE  ~Last(writing).stale /\ k <= Len(writing)
      <4>1. k <= Len(writing) /\ Len(writing) \in Nat /\ k \in Nat
        BY <2>1
      <4>2. CASE k < Len(writing)
        BY <3>1, <3>2, <4>2 DEF CaptureInv, CapturesInOrder
      <4>3. CASE k = Len(writing)
        BY <3>1, <3>2, <4>3
      <4> QED BY <4>1, <4>2, <4>3
    <3>3. CASE Covers(snapshot) /\ \A k \in DOMAIN writing : ~writing[k].stale => Covers(writing[k].trades)
      BY <2>3, <3>1, <3>3 DEF Newest
    <3>4. ASSUME NEW k \in DOMAIN writing, ~writing[k].stale,
                 \A j \in DOMAIN writing : k <= j => Covers(writing[j].trades)
          PROVE  Covers(Newest)
      BY <2>3, <3>1, <3>2, <3>4 DEF Newest
    <3> QED BY <2>1, <3>3, <3>4 DEF Covered
  <2> QED BY <2>2, <2>3
<1> QED BY <1>1, Inductive, CapturesInductive, PTL

(* What findLatest returns is never replaced by an older state of a trade,    *)
(* whatever order the saves return in.                                        *)
THEOREM SnapshotsGoForward == Spec => SnapshotNeverGoesBack
<1>1. IInv /\ CaptureInv /\ [Next]_vars => [\A t \in Trades : Advances(snapshot[t], snapshot'[t])]_vars
  <2> SUFFICES ASSUME IInv, CaptureInv, Next, NEW t \in Trades
               PROVE  Advances(snapshot[t], snapshot'[t])
    OBVIOUS
  <2>1. CASE snapshot' = snapshot
    <3>1. snapshot[t] \in Trade \cup {NoTrade}
      BY DEF IInv, TypeOK, Book
    <3> QED BY <2>1, <3>1, AdvancesFrom
  <2>2. CASE \E i \in DOMAIN writing : ~writing[i].stale /\ snapshot' = writing[i].trades
    BY <2>2 DEF CaptureInv, CapturesInOrder
  <2>3. \/ snapshot' = snapshot
        \/ \E i \in DOMAIN writing : ~writing[i].stale /\ snapshot' = writing[i].trades
    <3>1. ASSUME NEW r \in Runs, Call(r) \/ RunStep(r) PROVE snapshot' = snapshot
      BY <3>1 DEF Call, RunStep, LookedUp, LookupFails, PlainStep, ConnectMarket, LoadSnapshot,
         RestoreTrade, EngineRestored, StepFails, PositionsVerified, HistorySaved, HistoryFails, RunOnly
    <3>2. ASSUME NEW a \in Reconcilers, BeginRecon(a) \/ ReconStep(a) PROVE snapshot' = snapshot
      BY <3>2 DEF BeginRecon, ReconStep, Fetch, Apply, Reported, ReconFails, ReconOnly
    <3>3. ASSUME EngineStep \/ MorningStartup \/ TimerFires \/ Crash \/ Exit \/ Start \/ Stop
          PROVE  snapshot' = snapshot
      BY <3>3 DEF EngineStep, CreateTrade, TriggerEntry, EntryAnswered, BrokerFills, TradeEnds,
         EngineOnly, MorningStartup, TimerFires, Crash, Exit, Start, Stop, captureVars
    <3>4. CASE WriteStep
      BY <3>4 DEF WriteStep, CaptureSaved, CaptureFails, LatestAfter
    <3> QED BY <3>1, <3>2, <3>3, <3>4 DEF Next
  <2> QED BY <2>1, <2>2, <2>3
<1> QED BY <1>1, Inductive, CapturesInductive, PTL DEF Spec, SnapshotNeverGoesBack
=============================================================================
