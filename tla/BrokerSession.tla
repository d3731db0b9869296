----------------------------- MODULE BrokerSession -----------------------------
(***************************************************************************)
(* The broker accounts of a user and the sessions that live orders go out  *)
(* with.  BrokerSessionManager keeps one session per account in memory and *)
(* its token in Mongo; a login or a renewal of an account is a single      *)
(* flight that every other caller of the account joins.  Above it are the  *)
(* saved accounts (BrokerAccountService), the choice between PAPER and     *)
(* LIVE (TradingModeService), the renewal timer, the bootstrap of a        *)
(* restarted process, and the requests of DhanExecutor, which renew a      *)
(* session that the broker refuses and try once more.                      *)
(*                                                                         *)
(* A call is one of these in progress; it goes on step by step where the   *)
(* code awaits the broker or Mongo.  The renewal of an account by the      *)
(* timer is a call that bears the account's name.                          *)
(***************************************************************************)
EXTENDS Integers, FiniteSets

CONSTANTS
    Accounts,
    Implemented,   \* those whose broker has a real adapter
    Calls,
    Scenarios,     \* sets of commands, one of which is given in a behaviour
    TTL,           \* how long a token is good for
    Interval,      \* BROKER_TOKEN_RENEWAL_INTERVAL_MS
    MaxTime,       \* bound on the clock
    MaxTokens,     \* bound on the tokens the broker issues
    MaxRetries,    \* MAX_TRANSIENT_RETRIES
    NoAccount, NoCall

ASSUME BrokerSessionAssumption ==
    /\ Implemented \subseteq Accounts
    /\ {TTL, Interval, MaxTime, MaxTokens} \subseteq Nat \ {0}
    /\ MaxRetries \in Nat
    /\ NoAccount \notin Accounts
    /\ NoCall \notin Calls \cup Accounts

VARIABLES
    scenario,
    clock,
    due,        \* when the renewal timer fires next
    broker,     \* the broker's side: tokens issued, and those it honours
    held,       \* the session of each account in memory
    reauth,     \* reauthRequired
    pending,    \* pendingAuth: the call in flight
    stored,     \* broker_tokens
    record,     \* broker_accounts
    mode, selected,   \* the user's trading preference
    armed,      \* accounts that live trades are pinned to
    call

sessions == <<held, reauth, pending, stored>>
choice == <<mode, selected, armed>>
vars == <<scenario, clock, due, broker, sessions, record, choice, call>>

-----------------------------------------------------------------------------
(* A token: its number and when it expires *)
NoToken == [id |-> 0, until |-> 0]
Issued == [id |-> broker.issued + 1, until |-> clock + TTL]

(* validateSession, and what the broker thinks of it *)
Valid(token) == token # NoToken /\ clock < token.until
Honoured(token) == Valid(token) /\ token.id \in broker.honoured

Idle == [op |-> "idle", account |-> NoAccount, at |-> "idle", token |-> NoToken,
         previous |-> NoAccount, attempt |-> 0, retried |-> FALSE]
Absent == [status |-> "absent", token |-> NoToken]

(* The token of the environment, DHAN_ACCESS_TOKEN *)
EnvToken == [id |-> 1, until |-> TTL]

(* The process starts with nothing, or, in a "live" scenario, is some way    *)
(* on: every user trades LIVE, through an account that has been logged in.  *)
Init ==
    /\ scenario \in Scenarios
    /\ clock = 0 /\ due = Interval
    /\ broker = [issued |-> 1, honoured |-> {1}]
    /\ reauth = [a \in Accounts |-> FALSE]
    /\ pending = [a \in Accounts |-> NoCall]
    /\ call = [c \in Calls \cup Accounts |-> Idle]
    /\ \E a \in IF "live" \in scenario THEN Implemented ELSE {NoAccount} :
         /\ selected = a
         /\ armed = {a} \ {NoAccount}
         /\ mode = IF a = NoAccount THEN "PAPER" ELSE "LIVE"
         /\ held = [b \in Accounts |-> IF b = a THEN EnvToken ELSE NoToken]
         /\ stored = held
         /\ record = [b \in Accounts |-> IF b = a THEN [status |-> "active", token |-> EnvToken]
                                                 ELSE Absent]

Free(c) == call[c].at = "idle"
Goes(c, k) == call' = [call EXCEPT ![c] = k]
Returns(c) == Goes(c, Idle)
Starts(c, name) == name \in scenario /\ Free(c)

Set(var, c, value) == [var EXCEPT ![call[c].account] = value]

-----------------------------------------------------------------------------
(* BrokerSessionManager: the single flight *)

Mutant_AuthenticatesAlone(c, k, at, token) ==
    /\ pending' = [pending EXCEPT ![k.account] = c]
    /\ Goes(c, [k EXCEPT !.at = at, !.token = token])

(* login() or refresh() for the call `k`: it carries the attempt, or joins  *)
(* the one in flight.                                                       *)
Authenticates(c, k, at, token) ==
    IF pending[k.account] = NoCall
    THEN /\ pending' = [pending EXCEPT ![k.account] = c]
         /\ Goes(c, [k EXCEPT !.at = at, !.token = token])
    ELSE Goes(c, [k EXCEPT !.at = "joined"]) /\ UNCHANGED pending

(* How a call goes on when the attempt it waited for has ended *)
Resumed(k, ok, token) ==
    CASE ok /\ k.op = "request" -> [k EXCEPT !.at = "sending", !.token = token, !.attempt = 1]
      [] ok /\ k.op \in {"activate", "switch", "select"} -> [k EXCEPT !.at = "marking"]
      [] OTHER -> Idle

(* The attempt ends for its carrier and for all who joined it. *)
Settle(c, ok) ==
    LET a == call[c].account IN
        /\ call' = [d \in DOMAIN call |->
                      IF d = c \/ (call[d].at = "joined" /\ call[d].account = a)
                      THEN Resumed(call[d], ok, call[c].token) ELSE call[d]]
        /\ pending' = [pending EXCEPT ![a] = NoCall]

(* performLogin: the broker is asked for the fund limit with the token *)
LoginAnswered(c) ==
    /\ call[c].at = "login"
    /\ \/ /\ Honoured(call[c].token)
          /\ held' = Set(held, c, call[c].token)
          /\ reauth' = Set(reauth, c, FALSE)
          /\ Goes(c, [call[c] EXCEPT !.at = "loginSaving"])
          /\ UNCHANGED pending
       \/ /\ reauth' = Set(reauth, c, TRUE)
          /\ Settle(c, FALSE)
          /\ UNCHANGED held
    /\ UNCHANGED <<scenario, clock, due, broker, stored, record, choice>>

LoginSaved(c) ==
    /\ call[c].at = "loginSaving"
    /\ \/ stored' = Set(stored, c, call[c].token) /\ UNCHANGED reauth /\ Settle(c, TRUE)
       \/ reauth' = Set(reauth, c, TRUE) /\ UNCHANGED stored /\ Settle(c, FALSE)
    /\ UNCHANGED <<scenario, clock, due, broker, held, record, choice>>

(* performRefresh fails: the session is gone before its document is. *)
RenewalFails(c) ==
    /\ held' = Set(held, c, NoToken)
    /\ reauth' = Set(reauth, c, TRUE)
    /\ Goes(c, [call[c] EXCEPT !.at = "renewClearing"])

Mutant_RenewAnsweredLate(c) ==
    /\ call[c].at = "renewing"
    /\ \/ /\ Honoured(call[c].token) /\ broker.issued < MaxTokens
          /\ LET new == Issued IN
               /\ broker' = [issued |-> new.id, honoured |-> (broker.honoured \ {call[c].token.id}) \cup {new.id}]
               /\ \/ /\ held' = Set(held, c, new)
                     /\ reauth' = Set(reauth, c, FALSE)
                     /\ Goes(c, [call[c] EXCEPT !.at = "renewSaving", !.token = new])
                     /\ UNCHANGED pending
                  \/ Settle(c, FALSE) /\ UNCHANGED <<held, reauth>>
       \/ UNCHANGED <<broker, pending>> /\ RenewalFails(c)
    /\ UNCHANGED <<scenario, clock, due, stored, record, choice>>

(* performRefresh: RenewToken takes a token that is still good, and kills   *)
(* it.  The answer may be lost; a token that is not good is refused.        *)
RenewAnswered(c) ==
    /\ call[c].at = "renewing"
    /\ \/ /\ Honoured(call[c].token) /\ broker.issued < MaxTokens
          /\ LET new == Issued IN
               /\ broker' = [issued |-> new.id, honoured |-> (broker.honoured \ {call[c].token.id}) \cup {new.id}]
               /\ \/ /\ held' = Set(held, c, new)
                     /\ reauth' = Set(reauth, c, FALSE)
                     /\ Goes(c, [call[c] EXCEPT !.at = "renewSaving", !.token = new])
                  \/ RenewalFails(c)
       \/ UNCHANGED broker /\ RenewalFails(c)
    /\ UNCHANGED <<scenario, clock, due, pending, stored, record, choice>>

RenewSaved(c) ==
    /\ call[c].at = "renewSaving"
    /\ \/ /\ stored' = Set(stored, c, call[c].token)
          /\ Settle(c, TRUE)
          /\ UNCHANGED <<held, reauth>>
       \/ RenewalFails(c) /\ UNCHANGED <<pending, stored>>
    /\ UNCHANGED <<scenario, clock, due, broker, record, choice>>

RenewCleared(c) ==
    /\ call[c].at = "renewClearing"
    /\ stored' \in {stored, Set(stored, c, NoToken)}
    /\ Settle(c, FALSE)
    /\ UNCHANGED <<scenario, clock, due, broker, held, reauth, record, choice>>

(* refresh() for the call `k` *)
Refreshes(c, k) ==
    IF pending[k.account] = NoCall /\ held[k.account] = NoToken
    THEN reauth' = [reauth EXCEPT ![k.account] = TRUE] /\ Returns(c) /\ UNCHANGED pending
    ELSE Authenticates(c, k, "renewing", held[k.account]) /\ UNCHANGED reauth

(* BrokerTokenRenewalScheduler: every account that holds a session, at once *)
Renews(a) == held[a] # NoToken /\ Free(a)
Renew ==
    /\ due <= clock
    /\ due' = clock + Interval
    /\ call' = [c \in DOMAIN call |->
                  IF c \in Accounts /\ Renews(c)
                  THEN [Idle EXCEPT !.op = "renew", !.account = c, !.token = held[c],
                                    !.at = IF pending[c] = NoCall THEN "renewing" ELSE "joined"]
                  ELSE call[c]]
    /\ pending' = [a \in Accounts |-> IF Renews(a) /\ pending[a] = NoCall THEN a ELSE pending[a]]
    /\ UNCHANGED <<scenario, clock, broker, held, reauth, stored, record, choice>>

(* The interval is hours and a request is bounded by its time-out: the      *)
(* renewals of one firing are over before the clock moves.                  *)
Tick ==
    /\ "tick" \in scenario
    /\ clock < MaxTime /\ clock < due
    /\ \A a \in Accounts : Free(a)
    /\ clock' = clock + 1
    /\ UNCHANGED <<scenario, due, broker, sessions, record, choice, call>>

(* logout(): the document, then the memory.  Removing an account goes on    *)
(* to delete it, whether or not that worked.                                *)
AfterLogout(c) ==
    IF call[c].op = "remove" THEN Goes(c, [call[c] EXCEPT !.at = "deleting"]) ELSE Returns(c)

LogoutCleared(c) ==
    /\ call[c].at = "loggingOut"
    /\ \/ /\ stored' = Set(stored, c, NoToken)
          /\ Goes(c, [call[c] EXCEPT !.at = "loggedOut"])
       \/ AfterLogout(c) /\ UNCHANGED stored
    /\ UNCHANGED <<scenario, clock, due, broker, held, reauth, pending, record, choice>>

LoggedOut(c) ==
    /\ call[c].at = "loggedOut"
    /\ held' = Set(held, c, NoToken)
    /\ reauth' = Set(reauth, c, FALSE)
    /\ AfterLogout(c)
    /\ UNCHANGED <<scenario, clock, due, broker, pending, stored, record, choice>>

-----------------------------------------------------------------------------
(* BrokerAccountService *)

(* A new record, with a token the user has just generated *)
AddAccount(a) ==
    /\ "connect" \in scenario
    /\ record[a] = Absent
    /\ broker.issued < MaxTokens
    /\ record' = [record EXCEPT ![a] = [status |-> "saved", token |-> Issued]]
    /\ broker' = [issued |-> broker.issued + 1, honoured |-> broker.honoured \cup {broker.issued + 1}]
    /\ UNCHANGED <<scenario, clock, due, sessions, choice, call>>

(* Brokers without an adapter can be saved, and no more. *)
HasAdapter(a) == a \in Implemented

(* activate(): a login with the token of the record *)
Activates(c, k) ==
    /\ HasAdapter(k.account)
    /\ Authenticates(c, k, "login", record[k.account].token)

Activate(c, a) ==
    /\ Starts(c, "connect")
    /\ record[a] # Absent
    /\ Activates(c, [Idle EXCEPT !.op = "activate", !.account = a])
    /\ UNCHANGED <<scenario, clock, due, broker, held, reauth, stored, record, choice>>

(* reconnect(), for a user and for a switch to LIVE: only where there is no *)
(* valid session.  `then` is where the call goes on if there is.            *)
Reconnects(c, k, then) ==
    IF Valid(held[k.account]) THEN Goes(c, then) /\ UNCHANGED pending ELSE Activates(c, k)

Marked(c) ==
    /\ call[c].at = "marking"
    /\ IF record[call[c].account] = Absent THEN Returns(c) /\ UNCHANGED record
       ELSE /\ record' = [record EXCEPT ![call[c].account].status = "active"]
            /\ IF call[c].op = "activate" THEN Returns(c)
               ELSE Goes(c, [call[c] EXCEPT !.at = "upserting"])
    /\ UNCHANGED <<scenario, clock, due, broker, sessions, choice>>

Disconnect(c, a) ==
    /\ Starts(c, "disconnect")
    /\ record[a] # Absent /\ held[a] # NoToken
    /\ Goes(c, [Idle EXCEPT !.op = "disconnect", !.account = a, !.at = "loggingOut"])
    /\ UNCHANGED <<scenario, clock, due, broker, sessions, record, choice>>

Remove(c, a) ==
    /\ Starts(c, "remove")
    /\ record[a] # Absent
    /\ Goes(c, [Idle EXCEPT !.op = "remove", !.account = a,
                  !.at = IF record[a].status = "active" /\ held[a] # NoToken
                         THEN "loggingOut" ELSE "deleting"])
    /\ UNCHANGED <<scenario, clock, due, broker, sessions, record, choice>>

Deleted(c) ==
    /\ call[c].at = "deleting"
    /\ record' = [record EXCEPT ![call[c].account] = Absent]
    /\ Returns(c)
    /\ UNCHANGED <<scenario, clock, due, broker, sessions, choice>>

-----------------------------------------------------------------------------
(* TradingModeService.  A switch waits for the one in progress. *)
NoSwitch == \A c \in Calls : call[c].op # "switch"

SwitchToPaper(c) ==
    /\ Starts(c, "switch") /\ NoSwitch
    /\ mode # "PAPER"
    /\ Goes(c, [Idle EXCEPT !.op = "switch", !.previous = selected, !.at = "upserting"])
    /\ UNCHANGED <<scenario, clock, due, broker, sessions, record, choice>>

SwitchToLive(c, a) ==
    /\ Starts(c, "switch") /\ NoSwitch
    /\ record[a] # Absent
    /\ ~(mode = "LIVE" /\ selected = a)
    /\ LET k == [Idle EXCEPT !.op = "switch", !.account = a, !.previous = selected] IN
         Reconnects(c, k, [k EXCEPT !.at = "upserting"])
    /\ UNCHANGED <<scenario, clock, due, broker, held, reauth, stored, record, choice>>

(* setSelectedBroker does not wait. *)
Select(c, a) ==
    /\ Starts(c, "select")
    /\ mode = "LIVE"
    /\ record[a] # Absent
    /\ LET k == [Idle EXCEPT !.op = "select", !.account = a] IN
         Reconnects(c, k, [k EXCEPT !.at = "upserting"])
    /\ UNCHANGED <<scenario, clock, due, broker, held, reauth, stored, record, choice>>

Upserted(c) ==
    /\ call[c].at = "upserting"
    /\ selected' = call[c].account
    /\ mode' = IF call[c].account = NoAccount THEN "PAPER" ELSE "LIVE"
    /\ Goes(c, [call[c] EXCEPT !.at = "upserted"])
    /\ UNCHANGED <<scenario, clock, due, broker, sessions, record, armed>>

(* A switch to PAPER unloads the session of the account it leaves; its      *)
(* token stays stored.                                                      *)
SwitchEnds(c) ==
    /\ call[c].at = "upserted"
    /\ held' = IF call[c].account = NoAccount /\ call[c].previous # NoAccount
               THEN [held EXCEPT ![call[c].previous] = NoToken] ELSE held
    /\ Returns(c)
    /\ UNCHANGED <<scenario, clock, due, broker, reauth, pending, stored, record, choice>>

(* A trade of a LIVE user is pinned to the account chosen. *)
Arm ==
    /\ mode = "LIVE" /\ selected \notin armed
    /\ armed' = armed \cup {selected}
    /\ UNCHANGED <<scenario, clock, due, broker, sessions, record, mode, selected, call>>

-----------------------------------------------------------------------------
(* DhanExecutor: a request for a trade of the account.  An entry passes the *)
(* gate first, whose other conditions hold or keep it from being sent; it   *)
(* then awaits a feature flag.                                              *)
Request(c, a, entry) ==
    /\ Starts(c, "request")
    /\ a \in armed
    /\ entry => Valid(held[a])
    /\ Goes(c, [Idle EXCEPT !.op = "request", !.account = a, !.at = "ensuring"])
    /\ UNCHANGED <<scenario, clock, due, broker, sessions, record, mode, selected, armed>>

(* ensureSession *)
Ensure(c) ==
    /\ call[c].at = "ensuring"
    /\ LET a == call[c].account IN
         Goes(c, IF pending[a] # NoCall THEN [call[c] EXCEPT !.at = "joined"]
                 ELSE IF Valid(held[a])
                 THEN [call[c] EXCEPT !.at = "sending", !.token = held[a], !.attempt = 1]
                 ELSE [call[c] EXCEPT !.at = "finding"])
    /\ UNCHANGED <<scenario, clock, due, broker, sessions, record, choice>>

FindToken(c) ==
    /\ call[c].at = "finding"
    /\ Goes(c, [call[c] EXCEPT !.at = "found", !.token = stored[call[c].account]])
    /\ UNCHANGED <<scenario, clock, due, broker, sessions, record, choice>>

Restored(c) ==
    /\ call[c].at = "found"
    /\ held' = Set(held, c, IF Valid(call[c].token) THEN call[c].token ELSE NoToken)
    /\ reauth' = Set(reauth, c, ~Valid(call[c].token))
    /\ Goes(c, IF Valid(call[c].token) THEN [call[c] EXCEPT !.at = "sending", !.attempt = 1] ELSE Idle)
    /\ UNCHANGED <<scenario, clock, due, broker, pending, stored, record, choice>>

(* The broker answers, or does not: then the request is sent again, and     *)
(* fails at last.  A refused session is renewed, once.                      *)
Sent(c) ==
    /\ call[c].at = "sending"
    /\ \/ Honoured(call[c].token) /\ Returns(c) /\ UNCHANGED <<reauth, pending>>
       \/ /\ IF call[c].attempt <= MaxRetries
             THEN Goes(c, [call[c] EXCEPT !.attempt = @ + 1]) ELSE Returns(c)
          /\ UNCHANGED <<reauth, pending>>
       \/ /\ ~Honoured(call[c].token)
          /\ IF call[c].retried THEN Returns(c) /\ UNCHANGED <<reauth, pending>>
             ELSE Refreshes(c, [call[c] EXCEPT !.retried = TRUE])
    /\ UNCHANGED <<scenario, clock, due, broker, held, stored, record, choice>>

-----------------------------------------------------------------------------
(* bootstrapLiveSession, for the account of a LIVE user: by recovery, and   *)
(* by the morning job                                                       *)
Bootstrap(c) ==
    /\ Starts(c, "bootstrap")
    /\ mode = "LIVE"
    /\ LET k == [Idle EXCEPT !.op = "bootstrap", !.account = selected] IN
         IF held[selected] # NoToken THEN Refreshes(c, k)
         ELSE /\ ~reauth[selected]
              /\ Authenticates(c, k, "login", EnvToken)
              /\ UNCHANGED reauth
    /\ UNCHANGED <<scenario, clock, due, broker, held, stored, record, choice>>

(* What a new process starts with *)
MemoryIsLost ==
    /\ held' = [a \in Accounts |-> NoToken]
    /\ reauth' = [a \in Accounts |-> FALSE]
    /\ pending' = [a \in Accounts |-> NoCall]
    /\ call' = [c \in DOMAIN call |-> Idle]
    /\ due' = clock + Interval

Crash ==
    /\ "crash" \in scenario
    /\ \E c \in DOMAIN call : ~Free(c)
    /\ MemoryIsLost
    /\ UNCHANGED <<scenario, clock, broker, stored, record, choice>>

(* A graceful stop logs every account out that holds a session, which may   *)
(* fail for some.                                                           *)
Shutdown ==
    /\ "crash" \in scenario
    /\ \E out \in SUBSET {a \in Accounts : held[a] # NoToken} :
         stored' = [a \in Accounts |-> IF a \in out THEN NoToken ELSE stored[a]]
    /\ MemoryIsLost
    /\ UNCHANGED <<scenario, clock, broker, record, choice>>

-----------------------------------------------------------------------------
Begin(c) ==
    \/ \E a \in Accounts :
         \/ Activate(c, a) \/ Disconnect(c, a) \/ Remove(c, a)
         \/ SwitchToLive(c, a) \/ Select(c, a)
         \/ \E entry \in BOOLEAN : Request(c, a, entry)
    \/ SwitchToPaper(c) \/ Bootstrap(c)

Continue(c) ==
    \/ LoginAnswered(c) \/ LoginSaved(c)
    \/ RenewAnswered(c) \/ RenewSaved(c) \/ RenewCleared(c)
    \/ LogoutCleared(c) \/ LoggedOut(c)
    \/ Marked(c) \/ Deleted(c) \/ Upserted(c) \/ SwitchEnds(c)
    \/ Ensure(c) \/ FindToken(c) \/ Restored(c) \/ Sent(c)

Next ==
    \/ \E c \in Calls : Begin(c)
    \/ \E c \in Calls \cup Accounts : Continue(c)
    \/ \E a \in Accounts : AddAccount(a)
    \/ Renew \/ Tick \/ Arm \/ Crash \/ Shutdown

Spec == Init /\ [][Next]_vars

-----------------------------------------------------------------------------
(* Properties *)

(* The types.  A LIVE user has an account, and a PAPER user has none: a      *)
(* switch, a selection and their saves never leave the one without the other *)
(* (TradingModeService).                                                     *)
Callers == Calls \cup Accounts
Token == [id : Nat, until : Nat]
Ops == {"idle", "activate", "switch", "select", "renew", "request", "bootstrap", "disconnect", "remove"}
Carrying == {"login", "loginSaving", "renewing", "renewSaving", "renewClearing"}
Places ==
    Carrying \cup {"idle", "joined", "marking", "upserting", "upserted", "loggingOut", "loggedOut",
                  "deleting", "ensuring", "finding", "found", "sending"}
Call == [op : Ops, account : Accounts \cup {NoAccount}, at : Places, token : Token,
         previous : Accounts \cup {NoAccount}, attempt : Nat, retried : BOOLEAN]

TypeOK ==
    /\ clock \in Nat /\ due \in Nat
    /\ broker \in [issued : Nat, honoured : SUBSET Nat]
    /\ held \in [Accounts -> Token] /\ stored \in [Accounts -> Token]
    /\ reauth \in [Accounts -> BOOLEAN]
    /\ pending \in [Accounts -> Callers \cup {NoCall}]
    /\ record \in [Accounts -> [status : {"absent", "saved", "active"}, token : Token]]
    /\ mode \in {"PAPER", "LIVE"} /\ selected \in Accounts \cup {NoAccount}
    /\ mode = "LIVE" <=> selected # NoAccount
    /\ armed \subseteq Accounts
    /\ call \in [Callers -> Call]

(* No account is authenticated twice at a time, whoever asks for it: the    *)
(* timer, a refused request, a user, a switch or a bootstrap (pendingAuth;  *)
(* a second renewal would present a token the first one killed).            *)
Attempts(a) ==
    {c \in Callers : call[c].account = a /\ call[c].at \in Carrying \ {"renewClearing"}}
OneAttempt == \A a \in Accounts : Cardinality(Attempts(a)) <= 1

(* Whoever joined an attempt waits for one that is under way: no failure of *)
(* the broker or of Mongo leaves `pendingAuth` behind, on which every later *)
(* request, renewal, switch and reconnect of the account would wait.        *)
JoinedIsCarried ==
    \A a \in Accounts :
        \/ /\ pending[a] = NoCall
           /\ \A c \in Callers : call[c].at = "joined" => call[c].account # a
        \/ /\ pending[a] # NoCall
           /\ call[pending[a]].account = a
           /\ call[pending[a]].at \in Carrying

(* Both: one attempt of an account at a time, and nobody waits for none.    *)
SingleFlight == OneAttempt /\ JoinedIsCarried

(* A session in memory that has not expired is one the broker takes,        *)
(* whatever became of renewals, lost answers, logins with older tokens and  *)
(* logouts before: memory never keeps a token that RenewToken has killed.   *)
(* Two sessions may be such tokens.  One restored from its document is, if  *)
(* the document is older; and bootstrapLiveSession logs any account in with *)
(* the one token of the environment, which a second account that was        *)
(* bootstrapped with it then renews.                                        *)
Shared(a) == held[a].id = EnvToken.id /\ Accounts # {a}

HeldIsHonoured ==
    "request" \notin scenario =>
        \A a \in Accounts : Valid(held[a]) /\ ~Shared(a) => held[a].id \in broker.honoured

(* The invariant that shows it: the tokens of an account, in memory, in      *)
(* Mongo and in the calls on its behalf, were issued and are no other        *)
(* account's, but for the token of the environment.                          *)
Tokens(a) ==
    {held[a].id, stored[a].id, record[a].token.id}
        \cup {call[c].token.id : c \in {d \in Callers : call[d].account = a}}
Common == {NoToken.id, EnvToken.id}

TokensAreOwn ==
    \A a, b \in Accounts : a # b => Tokens(a) \cap Tokens(b) \subseteq Common

TokensWereIssued ==
    /\ \A a \in Accounts : \A i \in Tokens(a) : i <= broker.issued
    /\ EnvToken.id <= broker.issued /\ NoToken.id \notin broker.honoured

(* Only a request waits at the places of a request.                          *)
Requesting == {"ensuring", "finding", "found", "sending"}
RequestsOnly ==
    \A c \in Callers :
        /\ call[c].at \in Requesting => call[c].op = "request"
        /\ call[c].op = "request" => "request" \in scenario

TokenInv == TokensAreOwn /\ TokensWereIssued /\ RequestsOnly /\ HeldIsHonoured
=============================================================================
