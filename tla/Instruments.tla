------------------------------ MODULE Instruments ------------------------------
(***************************************************************************)
(* The instrument master, from the file of the broker to the form that a   *)
(* trade is entered in.  A refresh fetches the file, swaps the cache and   *)
(* saves a backup batch by batch; several run at once, since the cron, the *)
(* scheduler, the recovery of the broker's health and the start-up each    *)
(* begin one.  A restarted process serves the newest backup.  The form     *)
(* asks for the contracts that a call may mean, has the user choose, and   *)
(* sends the call as it was typed.                                         *)
(*                                                                         *)
(* What is cached or saved is a set of pieces, one for each batch, of an   *)
(* edition of a source.  An instant is half a day; a contract of Dhan      *)
(* expires with its day.                                                   *)
(***************************************************************************)
EXTENDS Integers, Sequences, SequencesExt, FiniteSets, FiniteSetsExt

CONSTANTS
    Listings,      \* the editions of the broker's file, sequences of rows
    IndexOptions,  \* INDEX_OPTIONS of the mock
    Equities,      \* EQUITIES of the mock
    Sources,       \* values of INSTRUMENT_MASTER_PROVIDER, one at each start
    Numeral,       \* the words that are numbers, with their values
    Queries,       \* the calls a user types, sequences of words
    LotCounts,
    Refreshes,
    BatchSize,     \* BATCH_SIZE
    MonthDays,
    MasterScenarios,
    MaxNow,        \* bound on the clock, of the ticks
    MaxVersion,    \* bound on the versions
    None

ASSUME MasterAssumption ==
    /\ {BatchSize, MonthDays, MaxNow, MaxVersion} \subseteq Nat \ {0}
    /\ Sources \subseteq {"MOCK", "DHAN"}
    /\ Refreshes # {} /\ None \notin Refreshes
    /\ None \notin {"UNKNOWN_SYMBOL", "INVALID_OPTION_TYPE", "INVALID_STRIKE", "MISSING_EXPIRY",
                   "EXPIRED_CONTRACT", "INVALID_SEGMENT", "AMBIGUOUS_INSTRUMENT",
                   "DUPLICATE_INSTRUMENT", "EXPIRY_NOT_AVAILABLE"}

VARIABLES
    masterScenario,
    now,
    edition,   \* of the file that the broker serves
    source,    \* sourceProvider
    served,
    store,     \* the documents of the backup, by the batch
    lost,      \* versions whose save failed or was cut by a crash
    refresh,
    form,      \* NewTrade and useInstrumentExpiries
    draft      \* the trade that was asked for last

master == <<edition, source, served, store, lost, refresh>>
masterVars == <<masterScenario, now, master, form, draft>>

-----------------------------------------------------------------------------
(* Rows to contracts *)

KnownSegments == {"EQUITY", "INDEX", "FUTSTK", "OPTSTK", "FUTIDX", "OPTIDX", "FUTCOM", "OPTFUT",
                  "FUTCUR", "OPTCUR"}
OptionTypes == {"CE", "PE"}
DayOf(t) == t \div 2

ExchangeSegments ==
    [NSE |-> [E |-> "NSE_EQ", D |-> "NSE_FNO", C |-> "NSE_CURRENCY"],
     BSE |-> [E |-> "BSE_EQ", D |-> "BSE_FNO", C |-> "BSE_CURRENCY"],
     MCX |-> [M |-> "MCX_COMM"]]

MapExchangeSegment(exchange, segment) ==
    IF segment = "I" THEN "IDX_I"
    ELSE IF exchange \notin DOMAIN ExchangeSegments THEN None
    ELSE IF segment \notin DOMAIN ExchangeSegments[exchange] THEN None
    ELSE ExchangeSegments[exchange][segment]

(* A row has its trading symbol in the parts that hyphens separate; a day    *)
(* or a number that cannot be read is None.                                  *)
ParseUnderlying(symbol) == <<Head(symbol)>>

Usable(row) ==
    /\ row.id # "" /\ row.symbol # <<>> /\ None \notin {row.lots, row.tick}
    /\ MapExchangeSegment(row.exchange, row.segment) # None

MapDhanInstrument(row) ==
    [token |-> row.id,
     exchange |-> MapExchangeSegment(row.exchange, row.segment),
     segment |-> IF row.kind = "" THEN "EQUITY" ELSE row.kind,
     name |-> ParseUnderlying(row.symbol),
     expiry |-> IF row.day = None THEN None ELSE 2 * row.day + 1,
     strike |-> IF row.strike > 0 THEN row.strike ELSE None,
     optionType |-> IF row.option \in OptionTypes THEN row.option ELSE None,
     lotSize |-> row.lots]

ParseCsv(rows) == LET usable == SelectSeq(rows, Usable)
                  IN  [i \in DOMAIN usable |-> MapDhanInstrument(usable[i])]

(* The mock's contracts expire in the morning of the first of next month.    *)
MonthOf(t) == DayOf(t) \div MonthDays
NextMonthlyExpiry(month) == 2 * MonthDays * (month + 1)

BuildEquities ==
    [i \in DOMAIN Equities |->
       [token |-> <<"MOCK-EQ", Equities[i]>>, exchange |-> "NSE_EQ", segment |-> "EQUITY",
        name |-> <<Equities[i]>>, expiry |-> None, strike |-> None, optionType |-> None,
        lotSize |-> 1]]

(* Strikes around the money, a call and a put at each.                       *)
Ladder(index, month) ==
    LET half == index.strikeCount \div 2
        Rung(k) == LET strike == index.atmStrike + ((k - 1) \div 2 - half) * index.strikeStep
                       option == IF k % 2 = 1 THEN "CE" ELSE "PE"
                   IN  [token |-> <<"MOCK", index.underlying, strike, option>>,
                        exchange |-> index.exchange, segment |-> index.segment,
                        name |-> <<index.underlying>>, expiry |-> NextMonthlyExpiry(month),
                        strike |-> strike, optionType |-> option, lotSize |-> index.lotSize]
        Positive(c) == c.strike > 0
    IN  SelectSeq([k \in 1..2 * (2 * half + 1) |-> Rung(k)], Positive)

BuildIndexOptions(month) ==
    FlattenSeq([i \in DOMAIN IndexOptions |-> Ladder(IndexOptions[i], month)])

FetchInstruments(from, of) ==
    IF from = "DHAN" THEN ParseCsv(Listings[of]) ELSE BuildEquities \o BuildIndexOptions(of)

Files == ({"DHAN"} \X DOMAIN Listings) \cup ({"MOCK"} \X (0..MonthOf(MaxNow)))

-----------------------------------------------------------------------------
(* The cache and its backup *)

(* What the files hold: at each place a contract, which is of a batch.       *)
Entries ==
    UNION {{[piece |-> [file |-> f, part |-> (i - 1) \div BatchSize + 1], at |-> i,
             contract |-> FetchInstruments(f[1], f[2])[i]] :
            i \in DOMAIN FetchInstruments(f[1], f[2])} : f \in Files}

Pieces(from, of) == {p \in {x.piece : x \in Entries} : p.file = <<from, of>>}
HeldList(content) == {x \in Entries : x.piece \in content}

Mutant_CountsFromOne(content, before, at) == [version |-> before + 1, content |-> content]
Swap(content, before, at) == [version |-> Max({at, before + 1}), content |-> content]
Empty == [version |-> 0, content |-> {}]

Versions == {d.version : d \in store}
OfVersion(v) == {d.piece : d \in {e \in store : e.version = v}}

Resting == [pc |-> "idle"]
Fetching == [pc |-> "fetching", from |-> edition]
SavingBatches(version, content) == [pc |-> "saving", version |-> version, left |-> content]

SavedNext(p, left) == \A q \in left : p.part <= q.part

InitMaster ==
    /\ masterScenario \in MasterScenarios /\ now = 0 /\ edition = 1
    /\ source \in Sources /\ served = Empty /\ store = {} /\ lost = {}
    /\ refresh = [r \in Refreshes |-> Resting]

(* The cron, the scheduler's job, the recovery of the broker's health.       *)
RefreshStarts(r) ==
    /\ "overlap" \in masterScenario \/ \A q \in Refreshes : refresh[q] = Resting
    /\ refresh[r] = Resting /\ served.version < MaxVersion
    /\ refresh' = [refresh EXCEPT ![r] = Fetching]
    /\ UNCHANGED <<masterScenario, now, edition, source, served, store, lost, form, draft>>

RefreshFetched(r) ==
    /\ refresh[r].pc = "fetching"
    /\ \E of \in IF source = "MOCK" THEN {MonthOf(now)} ELSE refresh[r].from..edition :
         LET content == Pieces(source, of)
         IN  /\ content # {}
             /\ served' = Swap(content, served.version, now)
             /\ refresh' = [refresh EXCEPT ![r] = SavingBatches(served'.version, content)]
    /\ UNCHANGED <<masterScenario, now, edition, source, store, lost, form, draft>>

RefreshFails(r) ==
    /\ refresh[r].pc = "fetching" /\ refresh' = [refresh EXCEPT ![r] = Resting]
    /\ UNCHANGED <<masterScenario, now, edition, source, served, store, lost, form, draft>>

BatchSaved(r) ==
    /\ refresh[r].pc = "saving"
    /\ \E p \in refresh[r].left :
         LET rest == refresh[r].left \ {p}
         IN  /\ SavedNext(p, refresh[r].left)
             /\ store' = store \cup {[version |-> refresh[r].version, piece |-> p]}
             /\ refresh' = [refresh EXCEPT ![r] = IF rest = {} THEN [pc |-> "saved"]
                                                  ELSE SavingBatches(@.version, rest)]
    /\ UNCHANGED <<masterScenario, now, edition, source, served, lost, form, draft>>

(* The failure is logged, and the refresh is reported as completed.          *)
SaveFails(r) ==
    /\ "loses" \in masterScenario /\ refresh[r].pc \in {"saving", "saved", "pruning"}
    /\ lost' = IF refresh[r].pc = "saving" THEN lost \cup {refresh[r].version} ELSE lost
    /\ refresh' = [refresh EXCEPT ![r] = Resting]
    /\ UNCHANGED <<masterScenario, now, edition, source, served, store, form, draft>>

VersionsToRetain == 2
ToDelete(versions) ==
    {v \in versions : Cardinality({w \in versions : w > v}) >= VersionsToRetain}

PruneListed(r) ==
    /\ refresh[r].pc = "saved"
    /\ refresh' = [refresh EXCEPT ![r] =
                      IF ToDelete(Versions) = {} THEN Resting
                      ELSE [pc |-> "pruning", doomed |-> ToDelete(Versions)]]
    /\ UNCHANGED <<masterScenario, now, edition, source, served, store, lost, form, draft>>

Pruned(r) ==
    /\ refresh[r].pc = "pruning"
    /\ store' = {d \in store : d.version \notin refresh[r].doomed}
    /\ refresh' = [refresh EXCEPT ![r] = Resting]
    /\ UNCHANGED <<masterScenario, now, edition, source, served, lost, form, draft>>

FindLatestSnapshot == IF Versions = {} THEN {} ELSE OfVersion(Max(Versions))

(* The process ends, wherever its refreshes are, and starts again, later on  *)
(* the clock; a backup that cannot be read is no backup.                     *)
OnModuleInit(content) ==
    /\ served' = IF content = {} THEN Empty ELSE Swap(content, 0, now')
    /\ refresh' = [r \in Refreshes |->
                     IF /\ \E p \in content : p.file[1] # source'
                        /\ r = CHOOSE q \in Refreshes : TRUE
                     THEN Fetching ELSE Resting]

RestartProcess ==
    /\ "restart" \in masterScenario /\ served.version < MaxVersion
    /\ now' = Max({now, served.version} \cup Versions) + 1 /\ now' <= MaxNow
    /\ source' \in Sources
    /\ lost' = lost \cup {refresh[r].version : r \in {q \in Refreshes : refresh[q].pc = "saving"}}
    /\ \E content \in {FindLatestSnapshot, {}} : OnModuleInit(content)
    /\ form' = IF form.asking THEN [form EXCEPT !.asking = FALSE] ELSE form
    /\ draft' = IF draft.state = "sent" THEN [draft EXCEPT !.state = "unreachable"]
                  ELSE draft
    /\ UNCHANGED <<masterScenario, edition, store>>

DayPasses ==
    /\ now < MaxNow /\ now' = now + 1
    /\ UNCHANGED <<masterScenario, master, form, draft>>

Publishes ==
    /\ edition < Len(Listings) /\ edition' = edition + 1
    /\ UNCHANGED <<masterScenario, now, source, served, store, lost, refresh, form, draft>>

-----------------------------------------------------------------------------
(* The resolver *)

LooksLikeStrikeAttempt(words) == Len(words) >= 2 /\ words[Len(words) - 1] \in DOMAIN Numeral

ParseSymbolInput(words) ==
    IF LooksLikeStrikeAttempt(words)
    THEN [underlying |-> SubSeq(words, 1, Len(words) - 2),
          strike |-> Numeral[words[Len(words) - 1]], optionType |-> Last(words)]
    ELSE [underlying |-> words, strike |-> None, optionType |-> None]

FindByUnderlying(name) == {x \in HeldList(served.content) : x.contract.name = name}
OfType(parsed) ==
    {x \in FindByUnderlying(parsed.underlying) : x.contract.optionType = parsed.optionType}
FindMatches(parsed) ==
    {x \in OfType(parsed) : parsed.optionType = None \/ x.contract.strike = parsed.strike}

NoMatch(words) ==
    LET parsed == ParseSymbolInput(words) IN
    IF words = <<>> THEN "UNKNOWN_SYMBOL"
    ELSE IF parsed.optionType \notin OptionTypes \cup {None} THEN "INVALID_OPTION_TYPE"
    ELSE IF FindByUnderlying(parsed.underlying) = {} THEN "UNKNOWN_SYMBOL"
    ELSE IF parsed.optionType # None /\ parsed.strike <= 0 THEN "INVALID_STRIKE"
    ELSE IF OfType(parsed) = {} THEN "UNKNOWN_SYMBOL"
    ELSE IF FindMatches(parsed) = {} THEN "INVALID_STRIKE"
    ELSE None

ExpiredBefore(c) == c.expiry # None /\ c.expiry < now

Unfit(parsed, c) ==
    IF parsed.optionType # None /\ c.expiry = None THEN "MISSING_EXPIRY"
    ELSE IF ExpiredBefore(c) THEN "EXPIRED_CONTRACT"
    ELSE IF c.segment \notin KnownSegments THEN "INVALID_SEGMENT"
    ELSE None

Mutant_TakesTheNearest(matches) == None
MoreThanOne(matches) ==
    IF \E x \in matches : matches = {x} THEN None
    ELSE IF Cardinality({x.contract.expiry : x \in matches}) > 1 THEN "AMBIGUOUS_INSTRUMENT"
    ELSE "DUPLICATE_INSTRUMENT"

Refused(code) == [code |-> code, contract |-> None]

Resolve(words, day) ==
    LET parsed == ParseSymbolInput(words)
        OnDay(c) == day = None \/ (c.expiry # None /\ DayOf(c.expiry) = day)
        matches == {x \in FindMatches(parsed) : OnDay(x.contract)}
        first == (CHOOSE x \in matches : TRUE).contract
        no == NoMatch(words)
    IN IF no # None THEN Refused(no)
       ELSE IF matches = {} THEN Refused("EXPIRY_NOT_AVAILABLE")
       ELSE IF MoreThanOne(matches) # None THEN Refused(MoreThanOne(matches))
       ELSE IF Unfit(parsed, first) # None THEN Refused(Unfit(parsed, first))
       ELSE [code |-> None, contract |-> first]

(* GET /instruments/expiries: no order is kept, and none matters here.       *)
ResolveExpiries(words) ==
    IF NoMatch(words) # None THEN {}
    ELSE {c \in {x.contract : x \in FindMatches(ParseSymbolInput(words))} :
            c.segment \in KnownSegments /\ ~ExpiredBefore(c)}

-----------------------------------------------------------------------------
(* The form of a new trade *)

Blank == [words |-> <<>>, asking |-> FALSE, choices |-> {}, chosen |-> None, at |-> 0]
NoRequest == [state |-> "none"]

InitForm == form = Blank /\ draft = NoRequest

(* The choice and the choices go with the text they were for, and an answer  *)
(* that is still to come is aborted.                                         *)
Types(words) ==
    /\ "form" \in masterScenario /\ words # form.words /\ draft.state # "sent"
    /\ form' = [Blank EXCEPT !.words = words, !.asking = words # <<>>]
    /\ UNCHANGED <<masterScenario, now, master, draft>>

ExpiriesAnswered ==
    /\ form.asking
    /\ form' = [form EXCEPT !.asking = FALSE, !.choices = ResolveExpiries(form.words),
                            !.at = served.version]
    /\ UNCHANGED <<masterScenario, now, master, draft>>

SelectExpiry(c) ==
    /\ Cardinality(form.choices) > 1
    /\ form.chosen = None \/ c = None     \* "Change expiry" comes first
    /\ form.chosen # c
    /\ form' = [form EXCEPT !.chosen = c]
    /\ UNCHANGED <<masterScenario, now, master, draft>>

Shown == IF Cardinality(form.choices) = 1 THEN CHOOSE c \in form.choices : TRUE ELSE form.chosen

(* What is sent is the text and a quantity, whichever contract was chosen.   *)
Submits(lots) ==
    /\ Shown # None /\ draft.state # "sent"
    /\ draft' = [state |-> "sent", words |-> form.words, quantity |-> lots * Shown.lotSize,
                   shown |-> Shown, at |-> form.at, answer |-> None]
    /\ UNCHANGED <<masterScenario, now, master, form>>

InstrumentExistsRule(words) == Resolve(words, None)

QuantityRule(quantity, c) ==
    IF c # None /\ c.lotSize > 0 /\ quantity % c.lotSize # 0 THEN "INVALID_QUANTITY" ELSE None

TradeAnswered ==
    /\ draft.state = "sent"
    /\ LET found == InstrumentExistsRule(draft.words)
           quantity == QuantityRule(draft.quantity, found.contract)
           code == IF found.code # None THEN found.code ELSE quantity
       IN  /\ draft' = [draft EXCEPT !.state = IF code = None THEN "accepted" ELSE "refused",
                             !.answer = [code |-> code, contract |-> found.contract,
                                         at |-> served.version]]
           /\ form' = IF code = None THEN Blank ELSE form
    /\ UNCHANGED <<masterScenario, now, master>>

-----------------------------------------------------------------------------
MasterInit == InitMaster /\ InitForm

MasterNext ==
    \/ RestartProcess \/ DayPasses \/ Publishes
    \/ \E r \in Refreshes :
          \/ RefreshStarts(r) \/ RefreshFetched(r) \/ RefreshFails(r) \/ BatchSaved(r)
          \/ SaveFails(r) \/ PruneListed(r) \/ Pruned(r)
    \/ \E words \in Queries : Types(words)
    \/ ExpiriesAnswered \/ TradeAnswered
    \/ \E c \in form.choices \cup {None} : SelectExpiry(c)
    \/ \E lots \in LotCounts : Submits(lots)

MasterSpec == MasterInit /\ [][MasterNext]_masterVars

-----------------------------------------------------------------------------
(* The backup that the next start will serve is the catalogue that is        *)
(* served now, whichever refreshes overlapped, and however often the process *)
(* was started, once no save is under way and none of the two was cut        *)
(* short: a version is never used twice, and pruning spares the newest.      *)
BackupIsTheLatest ==
    (/\ served.version > 0 /\ Versions # {}
     /\ \A r \in Refreshes : refresh[r].pc # "saving"
     /\ {served.version, Max(Versions)} \cap lost = {})
      => FindLatestSnapshot = served.content

(* A call is never taken for another contract: a contract that was offered,  *)
(* asked for with its day, is that contract or refused, and a trade that was *)
(* accepted is in the contract the user was shown, unless the catalogue was  *)
(* changed in between.                                                       *)
NeverAnother ==
    /\ form.at = served.version =>
         \A c \in {d \in form.choices : d.expiry # None} :
           Resolve(form.words, DayOf(c.expiry)).contract \in {c, None}
    /\ (draft.state = "accepted" /\ draft.at = draft.answer.at)
         => draft.answer.contract = draft.shown

(* "Callers facing that ambiguity should call resolveExpiries() first to     *)
(* list the valid choices, then call this again with the user's selected     *)
(* expiry" (instrument-resolver.service.ts): what the user chose from the    *)
(* list is not refused as ambiguous.                                         *)
ChosenIsTradable ==
    draft.state = "refused" => draft.answer.code # "AMBIGUOUS_INSTRUMENT"
=============================================================================
