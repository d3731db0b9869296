------------------------------- MODULE MarketFeed -------------------------------
(***************************************************************************)
(* Market data from the feed of the broker to the charts of the browsers.  *)
(* MarketDataService owns one provider and counts who wants an instrument; *)
(* DhanMarketDataProvider keeps a web socket open, connects again after a  *)
(* drop, with a bound on the retries, and asks again for everything that   *)
(* is wanted; RealtimeGateway passes prices on to the rooms of browsers,   *)
(* which name the instruments they show.                                   *)
(*                                                                         *)
(* WebSockets are numbered in the order they are made.  All of them call   *)
(* the same handlers, and the client forgets the last one only for a new   *)
(* one.                                                                    *)
(***************************************************************************)
EXTENDS Integers, Sequences, FiniteSets

CONSTANTS
    Instruments,
    Browsers,
    Trades,
    InstrumentOf,   \* the instrument of a trade
    FeedScenarios,  \* sets of what may happen, one of which is given
    MaxReconnects,  \* reconnectOptions.maxRetries
    MaxSockets,     \* bound on the web sockets made
    MaxMessages,    \* bound on what a browser has sent and the gateway not read
    NoInstrument

ASSUME MarketFeedAssumption ==
    /\ InstrumentOf \in [Trades -> Instruments]
    /\ {MaxReconnects, MaxSockets, MaxMessages} \subseteq Nat \ {0}
    /\ NoInstrument \notin Instruments
    /\ Browsers \cap Trades = {}

VARIABLES
    feedScenario, \* the scenario
    feed,         \* the provider and its web sockets
    service,      \* MarketDataService
    subscribers,  \* SubscriptionManager.subscribers
    quoted,       \* lastTickByInstrument has the instrument
    browser,      \* the browser's side
    inbox,        \* what it has sent
    link,         \* the gateway's side: "down", "verifying" or "ready"
    rooms,        \* the rooms it is in, and its socketInstrumentSubscriptions
    trade

gateway == <<browser, inbox, link, rooms>>
feedVars == <<feedScenario, feed, service, subscribers, quoted, gateway, trade>>

-----------------------------------------------------------------------------
Sockets == 1..MaxSockets
Mock == "mock" \in feedScenario

InitFeed ==
    /\ feedScenario \in FeedScenarios
    /\ feed = [state |-> "DISCONNECTED", attempts |-> 0, quitting |-> FALSE, timers |-> 0,
               wanted |-> {}, current |-> 0,
               socket |-> [s \in Sockets |-> "none"],
               origin |-> [s \in Sockets |-> "none"],
               asked |-> [s \in Sockets |-> {}]]
    /\ service = [started |-> FALSE, watchdog |-> FALSE, stopping |-> 0, next |-> "rest"]
    /\ subscribers = [i \in Instruments |-> {}]
    /\ quoted = {}
    /\ browser = [b \in Browsers |-> [shows |-> NoInstrument, seen |-> FALSE]]
    /\ inbox = [b \in Browsers |-> <<>>]
    /\ link = [b \in Browsers |-> "down"]
    /\ rooms = [b \in Browsers |-> {}]
    /\ trade = [t \in Trades |-> "none"]

-----------------------------------------------------------------------------
(* The provider, as functions on its record.  `current` is the socket that  *)
(* the client has; `quitting` is disconnectRequested.                       *)

IsOpen(f) == f.current # 0 /\ f.socket[f.current] = "open"
Becomes(f, s, what) == [f EXCEPT !.socket[s] = what]
CanConnect(f) == f.current < MaxSockets

(* connect(), up to where it awaits the socket; the mock has none to await. *)
Connects(f, who) ==
    LET s == f.current + 1 IN
        [state |-> IF Mock THEN "CONNECTED" ELSE "CONNECTING",
         attempts |-> f.attempts, quitting |-> FALSE, timers |-> f.timers,
         wanted |-> f.wanted, current |-> s,
         socket |-> [f.socket EXCEPT ![s] = IF Mock THEN "open" ELSE "connecting"],
         origin |-> [f.origin EXCEPT ![s] = who],
         asked |-> [f.asked EXCEPT ![s] = IF Mock THEN f.wanted ELSE {}]]

(* scheduleReconnect *)
Scheduled(f) ==
    IF f.attempts + 1 > MaxReconnects
    THEN [f EXCEPT !.attempts = @ + 1, !.state = "DISCONNECTED"]
    ELSE [f EXCEPT !.attempts = @ + 1, !.state = "RECONNECTING", !.timers = @ + 1]

(* handleUnexpectedDisconnect: "error" and "close" both come here. *)
Dropped(f) == IF f.quitting \/ f.state # "CONNECTED" THEN f ELSE Scheduled(f)

Mutant_ConnectThrowsQuietly(f, s) == f

(* connect() throws: the timer's call is tried again, a start or a reconnect *)
(* of the watchdog is not.                                                   *)
ConnectThrows(f, s) == IF f.origin[s] = "timer" THEN Scheduled(f) ELSE f

(* clearReconnectTimer: the last one set *)
TimerCleared(f) == [f EXCEPT !.timers = IF @ = 0 THEN 0 ELSE @ - 1]

(* Frames go out on the client's latest socket, which may not be open. *)
CanSend(f) == f.wanted = {} \/ IsOpen(f)

(* resubscribeAll *)
Resubscribed(f) == [f EXCEPT !.asked[f.current] = IF IsOpen(f) THEN @ \cup f.wanted ELSE @]

(* The socket that hears of a change of what is wanted                       *)
Hears(f, s) == IsOpen(f) /\ s = f.current

SubscribeFeed(f, i) ==
    [f EXCEPT !.wanted = @ \cup {i},
              !.asked = [s \in Sockets |-> f.asked[s] \cup IF Hears(f, s) THEN {i} ELSE {}]]
UnsubscribeFeed(f, gone) ==
    [f EXCEPT !.wanted = @ \ gone,
              !.asked = [s \in Sockets |-> f.asked[s] \ IF Hears(f, s) THEN gone ELSE {}]]

-----------------------------------------------------------------------------
(* MarketDataService and its provider *)

StartFeed ==
    /\ ~service.started /\ CanConnect(feed)
    /\ feed' = Connects(feed, "start")
    /\ service' = [service EXCEPT !.started = TRUE, !.watchdog = Mock]
    /\ UNCHANGED <<feedScenario, subscribers, quoted, gateway, trade>>

(* connect() goes on: CONNECTED, everything asked for again, and for start() *)
(* the watchdog.                                                             *)
Opens(s) ==
    /\ feed.socket[s] = "connecting"
    /\ LET f == [Becomes(feed, s, "open") EXCEPT !.attempts = 0, !.state = "CONNECTED"] IN
         /\ feed' = IF CanSend(f) THEN Resubscribed(f) ELSE ConnectThrows(f, s)
         /\ service' = IF CanSend(f) /\ f.origin[s] = "start"
                       THEN [service EXCEPT !.watchdog = TRUE] ELSE service
    /\ UNCHANGED <<feedScenario, subscribers, quoted, gateway, trade>>

(* The socket `s` has closed, and the provider has heard of it: a stop that  *)
(* waits for it ends, which RecoveryManager follows by a start.              *)
Closes(s, f) ==
    IF service.stopping # s
    THEN feed' = f /\ UNCHANGED service
    ELSE LET g == [f EXCEPT !.state = "DISCONNECTED"] IN
           IF service.next = "start"
           THEN /\ CanConnect(g)
                /\ feed' = Connects(g, "start")
                /\ service' = [service EXCEPT !.stopping = 0, !.started = TRUE]
           ELSE /\ feed' = g
                /\ service' = [service EXCEPT !.stopping = 0, !.started = FALSE]

(* It does not open, of its own or because stop() closed it: "error", the    *)
(* exception, "close".                                                       *)
FailsToOpen(s) ==
    /\ feed.socket[s] \in {"connecting", "aborting"}
    /\ feed.socket[s] = "connecting" => "drop" \in feedScenario
    /\ Closes(s, Dropped(ConnectThrows(Dropped(Becomes(feed, s, "closed")), s)))
    /\ UNCHANGED <<feedScenario, subscribers, quoted, gateway, trade>>

(* An open socket is lost: "error" and "close". *)
Drops(s) ==
    /\ "drop" \in feedScenario
    /\ feed.socket[s] = "open"
    /\ Closes(s, Dropped(Dropped(Becomes(feed, s, "closed"))))
    /\ UNCHANGED <<feedScenario, subscribers, quoted, gateway, trade>>

(* The broker closes it; the handshake may take longer than the watchdog     *)
(* waits for a heartbeat, of which there is none when no socket is open.     *)
BeginsToClose(s) ==
    /\ "handshake" \in feedScenario
    /\ feed.socket[s] = "open"
    /\ feed' = Becomes(feed, s, "closing")
    /\ UNCHANGED <<feedScenario, service, subscribers, quoted, gateway, trade>>

Closed(s) ==
    /\ feed.socket[s] = "closing"
    /\ Closes(s, Dropped(Becomes(feed, s, "closed")))
    /\ UNCHANGED <<feedScenario, subscribers, quoted, gateway, trade>>

TimerFires ==
    /\ feed.timers > 0 /\ CanConnect(feed)
    /\ feed' = Connects([feed EXCEPT !.timers = @ - 1], "timer")
    /\ UNCHANGED <<feedScenario, service, subscribers, quoted, gateway, trade>>

(* checkHeartbeatStaleness, reconnect(): the old socket is not closed. *)
WatchdogFires ==
    /\ service.watchdog
    /\ feed.state = "CONNECTED" /\ ~IsOpen(feed)
    /\ CanConnect(feed)
    /\ feed' = Connects(TimerCleared(feed), "watchdog")
    /\ UNCHANGED <<feedScenario, service, subscribers, quoted, gateway, trade>>

(* stop(), of the closing job or of RecoveryManager.  Closing a socket that  *)
(* has closed raises no event: that stop waits for ever.                     *)
StopFeed(next) ==
    /\ "stop" \in feedScenario
    /\ service.stopping = 0
    /\ LET f == TimerCleared([feed EXCEPT !.quitting = TRUE])
           s == feed.current
       IN
         IF s = 0 \/ Mock
         THEN /\ feed' = [f EXCEPT !.state = "DISCONNECTED",
                                   !.socket = IF s = 0 THEN @ ELSE [@ EXCEPT ![s] = "closed"]]
              /\ service' = [service EXCEPT !.started = FALSE, !.watchdog = FALSE]
         ELSE /\ feed' = CASE f.socket[s] = "open" -> Becomes(f, s, "closing")
                          [] f.socket[s] = "connecting" -> Becomes(f, s, "aborting")
                          [] OTHER -> f
              /\ service' = [service EXCEPT !.stopping = s, !.next = next, !.watchdog = FALSE]
    /\ UNCHANGED <<feedScenario, subscribers, quoted, gateway, trade>>

-----------------------------------------------------------------------------
(* subscribeInstrument, unsubscribeInstrument: the provider hears of the     *)
(* first subscriber and of the last.                                         *)

Mutant_SubscribesLast(i, who) ==
    /\ subscribers' = [subscribers EXCEPT ![i] = @ \cup {who}]
    /\ feed' = IF subscribers[i] # {} THEN feed ELSE [feed EXCEPT !.wanted = @ \cup {i}]

Subscribes(i, who) ==
    /\ subscribers' = [subscribers EXCEPT ![i] = @ \cup {who}]
    /\ feed' = IF subscribers[i] # {} THEN feed ELSE SubscribeFeed(feed, i)

Unsubscribed(subs, who, is) == [i \in Instruments |-> IF i \in is THEN subs[i] \ {who} ELSE subs[i]]

Unsubscribes(is, who) ==
    LET gone == {i \in is : subscribers[i] = {who}} IN
        /\ subscribers' = Unsubscribed(subscribers, who, is)
        /\ feed' = UnsubscribeFeed(feed, gone)

(* The queue's worker subscribes for a trade once its row says SUBMITTED;    *)
(* the archive gives back what a trade that has ended may not have yet.      *)
TradeMade(t) ==
    /\ "trade" \in feedScenario
    /\ trade[t] = "none"
    /\ trade' = [trade EXCEPT ![t] = "made"]
    /\ UNCHANGED <<feedScenario, feed, service, subscribers, quoted, gateway>>

TradeSubmitted(t) ==
    /\ trade[t] \in {"made", "endedEarly"}
    /\ trade' = [trade EXCEPT ![t] = IF @ = "made" THEN "watched" ELSE "leaked"]
    /\ Subscribes(InstrumentOf[t], t)
    /\ UNCHANGED <<feedScenario, service, quoted, gateway>>

TradeArchived(t) ==
    /\ trade[t] \in {"made", "watched"}
    /\ trade' = [trade EXCEPT ![t] = IF @ = "made" THEN "endedEarly" ELSE "ended"]
    /\ Unsubscribes({InstrumentOf[t]}, t)
    /\ UNCHANGED <<feedScenario, service, quoted, gateway>>

-----------------------------------------------------------------------------
(* RealtimeGateway and the browser's useInstrumentPriceStream.  A price goes *)
(* to the browsers of its room, and counts where it is of what they show.    *)

Packets == {"ticker", "quote", "full", "oi", "disconnect", "unknown", "short"}

(* parseDhanBinaryTick, handleRawMessage: open interest has no price. *)
IsTick(packet) == packet \in {"ticker", "quote", "full"}

(* handleTick, and what the gateway makes of it *)
Quotes(i) ==
    /\ quoted' = quoted \cup {i}
    /\ browser' = [b \in Browsers |->
                     IF i \in rooms[b] /\ browser[b].shows = i
                     THEN [browser[b] EXCEPT !.seen = TRUE] ELSE browser[b]]
    /\ UNCHANGED <<feedScenario, feed, service, subscribers, inbox, link, rooms, trade>>

Frame(s, i, packet) ==
    /\ ~Mock /\ feed.socket[s] = "open"
    /\ i \in feed.asked[s] \cap feed.wanted
    /\ IsTick(packet)
    /\ Quotes(i)

(* The mock makes its prices up. *)
TickAllSubscribed(i) == Mock /\ IsOpen(feed) /\ i \in feed.wanted /\ Quotes(i)

Message(name, i) == [name |-> name, instrument |-> i]
Sends(b, m) ==
    /\ Len(inbox[b]) < MaxMessages
    /\ inbox' = [inbox EXCEPT ![b] = Append(@, m)]

Show(b, i) ==
    /\ "browse" \in feedScenario
    /\ browser[b].shows = NoInstrument
    /\ browser' = [browser EXCEPT ![b] = [shows |-> i, seen |-> FALSE]]
    /\ IF link[b] = "down" THEN UNCHANGED inbox ELSE Sends(b, Message("subscribe", i))
    /\ UNCHANGED <<feedScenario, feed, service, subscribers, quoted, link, rooms, trade>>

(* What is sent while the socket is down, the client keeps. *)
Hide(b) ==
    /\ browser[b].shows # NoInstrument
    /\ browser' = [browser EXCEPT ![b].shows = NoInstrument]
    /\ Sends(b, Message("unsubscribe", browser[b].shows))
    /\ UNCHANGED <<feedScenario, feed, service, subscribers, quoted, link, rooms, trade>>

Link(b) ==
    /\ "browse" \in feedScenario
    /\ link[b] = "down"
    /\ link' = [link EXCEPT ![b] = "verifying"]
    /\ IF browser[b].shows = NoInstrument THEN UNCHANGED inbox
       ELSE Sends(b, Message("subscribe", browser[b].shows))
    /\ UNCHANGED <<feedScenario, feed, service, subscribers, quoted, browser, rooms, trade>>

(* handleConnection, which awaits the token and the user *)
Verified(b) ==
    /\ link[b] = "verifying"
    /\ link' = [link EXCEPT ![b] = "ready"]
    /\ UNCHANGED <<feedScenario, feed, service, subscribers, quoted, browser, inbox, rooms, trade>>

(* A browser that joins is sent the last price. *)
Snapshot(b, i) ==
    browser' = [browser EXCEPT ![b].seen = @ \/ (i \in quoted /\ browser[b].shows = i)]

(* handleSubscribeInstrument: not for a client that is not verified yet *)
ReceiveSubscribe(b) ==
    /\ link[b] # "down" /\ inbox[b] # <<>>
    /\ Head(inbox[b]).name = "subscribe"
    /\ LET i == Head(inbox[b]).instrument IN
         IF link[b] = "ready"
         THEN /\ rooms' = [rooms EXCEPT ![b] = @ \cup {i}]
              /\ Subscribes(i, b)
              /\ Snapshot(b, i)
         ELSE UNCHANGED <<rooms, subscribers, feed, browser>>
    /\ inbox' = [inbox EXCEPT ![b] = Tail(@)]
    /\ UNCHANGED <<feedScenario, service, quoted, link, trade>>

(* handleUnsubscribeInstrument *)
ReceiveUnsubscribe(b) ==
    /\ link[b] # "down" /\ inbox[b] # <<>>
    /\ Head(inbox[b]).name = "unsubscribe"
    /\ rooms' = [rooms EXCEPT ![b] = @ \ {Head(inbox[b]).instrument}]
    /\ Unsubscribes({Head(inbox[b]).instrument}, b)
    /\ inbox' = [inbox EXCEPT ![b] = Tail(@)]
    /\ UNCHANGED <<feedScenario, service, quoted, browser, link, trade>>

(* handleDisconnect, also of a client that was refused *)
Unlink(b) ==
    /\ link[b] # "down"
    /\ link' = [link EXCEPT ![b] = "down"]
    /\ rooms' = [rooms EXCEPT ![b] = {}]
    /\ inbox' = [inbox EXCEPT ![b] = <<>>]
    /\ Unsubscribes(rooms[b], b)
    /\ UNCHANGED <<feedScenario, service, quoted, browser, trade>>

-----------------------------------------------------------------------------
NextFeed ==
    \/ StartFeed \/ TimerFires \/ WatchdogFires
    \/ \E next \in {"rest", "start"} : StopFeed(next)
    \/ \E s \in Sockets :
         \/ Opens(s) \/ FailsToOpen(s) \/ Drops(s) \/ BeginsToClose(s) \/ Closed(s)
         \/ \E i \in Instruments, packet \in Packets : Frame(s, i, packet)
    \/ \E i \in Instruments : TickAllSubscribed(i)
    \/ \E t \in Trades : TradeMade(t) \/ TradeSubmitted(t) \/ TradeArchived(t)
    \/ \E b \in Browsers :
         \/ Link(b) \/ Verified(b) \/ Unlink(b) \/ Hide(b)
         \/ ReceiveSubscribe(b) \/ ReceiveUnsubscribe(b)
         \/ \E i \in Instruments : Show(b, i)

FeedSpec == InitFeed /\ [][NextFeed]_feedVars

-----------------------------------------------------------------------------
(* Properties *)

Watching(i) ==
    {t \in Trades : InstrumentOf[t] = i /\ trade[t] \in {"watched", "leaked"}}
        \cup {b \in Browsers : i \in rooms[b]}

(* A connected feed is asked for exactly what trades and browsers watch,     *)
(* whatever has been dropped, connected again, stopped and started, and      *)
(* whoever came and went meanwhile (resubscribeAll, SubscriptionManager).    *)
FeedFollowsWatchers ==
    (feed.state = "CONNECTED" /\ IsOpen(feed)) =>
        feed.asked[feed.current] = {i \in Instruments : Watching(i) # {}}

(* Nobody who is in the room of an instrument looks at an empty chart when   *)
(* its price is known (handleSubscribeInstrument's snapshot).                *)
NoEmptyChart ==
    \A b \in Browsers :
        LET i == browser[b].shows IN
          (i # NoInstrument /\ i \in rooms[b] \cap quoted /\ inbox[b] = <<>>) => browser[b].seen

(* Both: who watches gets the prices there are.                              *)
WatchersAreServed == FeedFollowsWatchers /\ NoEmptyChart

(* A drop makes one connection out of one, although a socket that fails      *)
(* raises two events and rejects a call: there are never two sockets, which  *)
(* would deliver every price twice.  And a connection that was once made is, *)
(* when it is lost, tried again until it is back or the retries are used up. *)
DropIsRetried ==
    feedScenario \cap {"stop", "handshake"} = {} =>
        /\ Cardinality({s \in Sockets : feed.socket[s] \in {"connecting", "open"}})
             + feed.timers <= 1
        /\ (feed.current > 1 /\ feed.state \in {"CONNECTING", "RECONNECTING"}) =>
             feed.timers > 0 \/ feed.socket[feed.current] = "connecting"
=============================================================================
