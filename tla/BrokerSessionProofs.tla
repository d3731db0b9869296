-------------------------- MODULE BrokerSessionProofs --------------------------
(* That the login or renewal of an account is a single flight, and that a     *)
(* session in memory is one the broker takes, for any number of accounts and  *)
(* calls, and of tokens and renewals.                                         *)
EXTENDS BrokerSession, FiniteSetTheorems, TLAPS

(* A call that is past its beginning has an account, but for a switch to     *)
(* PAPER.                                                                    *)
Placed ==
    \A c \in Callers :
        call[c].at \notin {"idle", "upserting", "upserted"} => call[c].account \in Accounts

(* `pendingAuth` of an account is the one call that carries its attempt.     *)
Carried ==
    \A a \in Accounts, c \in Callers :
        (call[c].account = a /\ call[c].at \in Carrying) <=> pending[a] = c

Joined == \A c \in Callers : call[c].at = "joined" => pending[call[c].account] # NoCall

FlightInv ==
    /\ pending \in [Accounts -> Callers \cup {NoCall}]
    /\ call \in [Callers -> Call]
    /\ Placed /\ Carried /\ Joined

IInv == TypeOK /\ FlightInv

LEMMA Constants ==
    /\ NoToken \in Token /\ EnvToken \in Token
    /\ Idle \in Call /\ Idle.at = "idle" /\ Idle.account = NoAccount
    /\ Interval \in Nat
    /\ NoCall \notin Callers /\ NoAccount \notin Accounts
    /\ Calls \subseteq Callers /\ Accounts \subseteq Callers
BY BrokerSessionAssumption
   DEF NoToken, EnvToken, Token, Idle, Call, Ops, Places, Carrying, Callers, BrokerSessionAssumption

-----------------------------------------------------------------------------
(* What a step may do to the calls and to `pendingAuth`                      *)

(* One call goes on, in its part: as the carrier of an attempt, or not.      *)
LEMMA CallMoves ==
    ASSUME FlightInv, NEW c \in Callers, NEW k \in Call,
           call[c].at \in Carrying \/ k.at \in Carrying =>
               call[c].at \in Carrying /\ k.at \in Carrying /\ k.account = call[c].account,
           k.at = "joined" => pending[k.account] # NoCall,
           k.at \notin {"idle", "upserting", "upserted"} => k.account \in Accounts,
           Goes(c, k), UNCHANGED pending
    PROVE  FlightInv'
<1>1. call' \in [Callers -> Call]
  BY DEF FlightInv, Goes
<1>2. \A d \in Callers : call'[d] = IF d = c THEN k ELSE call[d]
  BY DEF FlightInv, Goes
<1>3. Placed'
  BY <1>2 DEF FlightInv, Placed
<1>4. Carried'
  BY <1>2 DEF FlightInv, Carried
<1>5. Joined'
  BY <1>2 DEF FlightInv, Joined
<1> QED
  BY <1>1, <1>3, <1>4, <1>5 DEF FlightInv

(* A call that returns *)
LEMMA CallReturns ==
    ASSUME FlightInv, NEW c \in Callers, call[c].at \notin Carrying, Returns(c), UNCHANGED pending
    PROVE  FlightInv'
<1>1. Goes(c, Idle)
  BY DEF Returns
<1>2. Idle.at \notin Carrying /\ Idle.at # "joined"
  BY Constants DEF Carrying
<1> QED
  BY <1>1, <1>2, CallMoves, Constants

(* A call starts an attempt, or joins the one there is. *)
LEMMA CallAuthenticates ==
    ASSUME FlightInv, NEW c \in Callers, call[c].at \notin Carrying,
           NEW k \in Call, k.account \in Accounts,
           NEW at \in Carrying, NEW token \in Token, Authenticates(c, k, at, token)
    PROVE  FlightInv'
<1>a. at \in Places /\ "joined" \in Places /\ "joined" \notin Carrying
  BY DEF Places, Carrying
<1>1. CASE pending[k.account] # NoCall
  <2> DEFINE j == [k EXCEPT !.at = "joined"]
  <2>1. j \in Call /\ j.at = "joined" /\ j.account = k.account
    BY <1>a DEF Call
  <2>2. Goes(c, j) /\ UNCHANGED pending
    BY <1>1 DEF Authenticates
  <2> HIDE DEF j
  <2> QED
    BY <1>1, <1>a, <2>1, <2>2, CallMoves
<1>2. CASE pending[k.account] = NoCall
  <2> DEFINE j == [k EXCEPT !.at = at, !.token = token]
  <2>1. j \in Call /\ j.at = at /\ j.account = k.account
    BY <1>a DEF Call
  <2>2. /\ pending' = [pending EXCEPT ![k.account] = c]
        /\ call' = [call EXCEPT ![c] = j]
    BY <1>2 DEF Authenticates, Goes
  <2> HIDE DEF j
  <2>3. call' \in [Callers -> Call] /\ pending' \in [Accounts -> Callers \cup {NoCall}]
    BY <2>1, <2>2 DEF FlightInv
  <2>4. \A d \in Callers : call'[d] = IF d = c THEN j ELSE call[d]
    BY <2>2 DEF FlightInv
  <2>5. \A a \in Accounts : pending'[a] = IF a = k.account THEN c ELSE pending[a]
    BY <2>2 DEF FlightInv
  <2>6. Placed'
    BY <2>1, <2>4 DEF FlightInv, Placed
  <2>7. Carried'
    <3> SUFFICES ASSUME NEW a \in Accounts, NEW d \in Callers
                 PROVE  (call'[d].account = a /\ call'[d].at \in Carrying) <=> pending'[a] = d
      BY DEF Carried
    <3>1. (call[d].account = a /\ call[d].at \in Carrying) <=> pending[a] = d
      BY DEF FlightInv, Carried
    <3> QED
      BY <1>2, <2>1, <2>4, <2>5, <3>1, Constants
  <2>8. Joined'
    BY <1>a, <2>1, <2>4, <2>5, Constants DEF FlightInv, Joined, Placed
  <2> QED
    BY <2>3, <2>6, <2>7, <2>8 DEF FlightInv
<1> QED
  BY <1>1, <1>2

LEMMA ResumedCall ==
    ASSUME NEW k \in Call, NEW ok \in BOOLEAN, NEW token \in Token
    PROVE  /\ Resumed(k, ok, token) \in Call
           /\ Resumed(k, ok, token).at \notin Carrying \cup {"joined"}
           /\ \/ Resumed(k, ok, token).at = "idle"
              \/ Resumed(k, ok, token).account = k.account
<1>1. CASE ok /\ k.op = "request"
  BY <1>1 DEF Resumed, Call, Places, Carrying
<1>2. CASE ~(ok /\ k.op = "request") /\ ok /\ k.op \in {"activate", "switch", "select"}
  BY <1>2 DEF Resumed, Call, Places, Carrying
<1>3. CASE ~(ok /\ k.op = "request") /\ ~(ok /\ k.op \in {"activate", "switch", "select"})
  <2>1. Resumed(k, ok, token) = Idle
    BY <1>3 DEF Resumed
  <2> QED
    BY <2>1, Constants DEF Carrying
<1> QED
  BY <1>1, <1>2, <1>3

(* The attempt of an account ends, for all who wait for it. *)
LEMMA FlightSettles ==
    ASSUME FlightInv, NEW c \in Callers, call[c].at \in Carrying, NEW ok \in BOOLEAN, Settle(c, ok)
    PROVE  FlightInv'
<1> DEFINE a == call[c].account
           Waits(d) == d = c \/ (call[d].at = "joined" /\ call[d].account = a)
<1>1. a \in Accounts /\ pending[a] = c /\ call[c].token \in Token
  BY DEF FlightInv, Placed, Carried, Carrying, Call
<1>2. \A d \in Callers :
        call'[d] = IF Waits(d) THEN Resumed(call[d], ok, call[c].token) ELSE call[d]
  BY DEF FlightInv, Settle
<1>3. pending' = [pending EXCEPT ![a] = NoCall]
  BY DEF Settle
<1>4. \A d \in Callers : Resumed(call[d], ok, call[c].token) \in Call
  BY <1>1, ResumedCall DEF FlightInv
<1>5. call' \in [Callers -> Call] /\ pending' \in [Accounts -> Callers \cup {NoCall}]
  BY <1>1, <1>2, <1>3, <1>4 DEF FlightInv, Settle
<1>6. \A b \in Accounts : pending'[b] = IF b = a THEN NoCall ELSE pending[b]
  BY <1>3 DEF FlightInv
<1>7. \A d \in Callers : Waits(d) =>
        /\ call'[d].at \notin Carrying \cup {"joined"}
        /\ call'[d].at = "idle" \/ call'[d].account = a
  BY <1>1, <1>2, ResumedCall DEF FlightInv
<1>8. \A d \in Callers : ~Waits(d) => call'[d] = call[d]
  BY <1>2
<1> HIDE DEF a
<1>9. Placed'
  BY <1>1, <1>7, <1>8 DEF FlightInv, Placed
<1>10. Carried'
  <2> SUFFICES ASSUME NEW b \in Accounts, NEW d \in Callers
               PROVE  (call'[d].account = b /\ call'[d].at \in Carrying) <=> pending'[b] = d
    BY DEF Carried
  <2>1. (call[d].account = b /\ call[d].at \in Carrying) <=> pending[b] = d
    BY DEF FlightInv, Carried
  <2>2. CASE Waits(d)
    <3>1. b # a => pending[b] # d
      BY <1>1, <2>1, <2>2 DEF Carrying, a
    <3> QED
      BY <1>6, <1>7, <2>2, <3>1, Constants
  <2>3. CASE ~Waits(d)
    <3>1. b = a => pending[b] # d
      BY <1>1, <2>3
    <3> QED
      BY <1>6, <1>8, <2>1, <2>3, <3>1, Constants
  <2> QED
    BY <2>2, <2>3
<1>11. Joined'
  BY <1>1, <1>6, <1>7, <1>8 DEF FlightInv, Joined, Placed
<1> QED
  BY <1>5, <1>9, <1>10, <1>11 DEF FlightInv

(* The timer renews every account that holds a session. *)
LEMMA TimerRenews ==
    ASSUME IInv, Renew
    PROVE  FlightInv'
<1> DEFINE R(c) == c \in Accounts /\ Renews(c)
           K(c) == [Idle EXCEPT !.op = "renew", !.account = c, !.token = held[c],
                                !.at = IF pending[c] = NoCall THEN "renewing" ELSE "joined"]
<1>1. \A c \in Accounts :
        /\ K(c) \in Call /\ K(c).account = c
        /\ K(c).at = IF pending[c] = NoCall THEN "renewing" ELSE "joined"
  BY Constants DEF IInv, TypeOK, Idle, Call, Ops, Places, Carrying
<1>2. \A c \in Callers : call'[c] = IF R(c) THEN K(c) ELSE call[c]
  BY DEF Renew, IInv, FlightInv
<1>3. \A a \in Accounts :
        pending'[a] = IF Renews(a) /\ pending[a] = NoCall THEN a ELSE pending[a]
  BY DEF Renew
<1>4. \A c \in Callers : R(c) => call[c].at = "idle"
  BY DEF Renews, Free
<1>d. DOMAIN call = Callers /\ call \in [Callers -> Call]
  BY DEF IInv, FlightInv
<1>e. call' = [c \in Callers |-> IF R(c) THEN K(c) ELSE call[c]]
  BY <1>d DEF Renew, K
<1> HIDE DEF K
<1>5. call' \in [Callers -> Call]
  BY <1>1, <1>d, <1>e
<1>6. pending' \in [Accounts -> Callers \cup {NoCall}]
  BY <1>3, Constants DEF Renew, IInv, FlightInv
<1>7. Placed'
  BY <1>1, <1>2 DEF IInv, FlightInv, Placed
<1>8. Carried'
  <2> SUFFICES ASSUME NEW a \in Accounts, NEW c \in Callers
               PROVE  (call'[c].account = a /\ call'[c].at \in Carrying) <=> pending'[a] = c
    BY DEF Carried
  <2>1. (call[c].account = a /\ call[c].at \in Carrying) <=> pending[a] = c
    BY DEF IInv, FlightInv, Carried
  <2>2. "renewing" \in Carrying /\ "joined" \notin Carrying /\ "idle" \notin Carrying
    BY DEF Carrying
  <2> QED
    BY <1>1, <1>2, <1>3, <1>4, <2>1, <2>2, Constants
<1>9. Joined'
  BY <1>1, <1>2, <1>3, Constants DEF IInv, FlightInv, Joined, Placed
<1> QED
  BY <1>5, <1>6, <1>7, <1>8, <1>9 DEF FlightInv

LEMMA MemoryGoes ==
    ASSUME FlightInv, MemoryIsLost
    PROVE  FlightInv'
<1>1. \A c \in Callers : call'[c] = Idle
  BY DEF FlightInv, MemoryIsLost
<1>2. \A a \in Accounts : pending'[a] = NoCall
  BY DEF MemoryIsLost
<1> QED
  BY <1>1, <1>2, Constants DEF FlightInv, MemoryIsLost, Placed, Carried, Joined, Carrying

(* A call goes on at another place, in its part. *)
LEMMA CallGoesOn ==
    ASSUME FlightInv, NEW c \in Callers, NEW p \in Places, NEW token \in Token, NEW n \in Nat,
           call[c].at \in Carrying <=> p \in Carrying,
           p # "joined",
           p \in {"idle", "upserting", "upserted"} \/ call[c].account \in Accounts,
           \/ Goes(c, [call[c] EXCEPT !.at = p])
           \/ Goes(c, [call[c] EXCEPT !.at = p, !.token = token])
           \/ Goes(c, [call[c] EXCEPT !.at = p, !.token = token, !.attempt = n])
           \/ Goes(c, [call[c] EXCEPT !.at = p, !.attempt = n]),
           UNCHANGED pending
    PROVE  FlightInv'
<1>1. call[c] \in Call
  BY DEF FlightInv
<1>2. ASSUME NEW k \in Call, k.at = p, k.account = call[c].account, Goes(c, k)
      PROVE  FlightInv'
  BY <1>2, CallMoves
<1>3. /\ [call[c] EXCEPT !.at = p] \in Call
      /\ [call[c] EXCEPT !.at = p].at = p
      /\ [call[c] EXCEPT !.at = p].account = call[c].account
  BY <1>1 DEF Call
<1>4. /\ [call[c] EXCEPT !.at = p, !.token = token] \in Call
      /\ [call[c] EXCEPT !.at = p, !.token = token].at = p
      /\ [call[c] EXCEPT !.at = p, !.token = token].account = call[c].account
  BY <1>1 DEF Call
<1>5. /\ [call[c] EXCEPT !.at = p, !.token = token, !.attempt = n] \in Call
      /\ [call[c] EXCEPT !.at = p, !.token = token, !.attempt = n].at = p
      /\ [call[c] EXCEPT !.at = p, !.token = token, !.attempt = n].account = call[c].account
  BY <1>1 DEF Call
<1>6. /\ [call[c] EXCEPT !.at = p, !.attempt = n] \in Call
      /\ [call[c] EXCEPT !.at = p, !.attempt = n].at = p
      /\ [call[c] EXCEPT !.at = p, !.attempt = n].account = call[c].account
  BY <1>1 DEF Call
<1> QED
  BY <1>2, <1>3, <1>4, <1>5, <1>6

LEMMA RestUnchanged ==
    ASSUME IInv, FlightInv',
           UNCHANGED <<clock, due, broker, held, stored, reauth, record, mode, selected, armed>>
    PROVE  IInv'
<1>1. TypeOK'
  BY DEF IInv, TypeOK, FlightInv
<1> QED
  BY <1>1 DEF IInv

-----------------------------------------------------------------------------
(* The steps of a call *)

LEMMA LoginSteps ==
    ASSUME IInv, NEW c \in Callers, LoginAnswered(c) \/ LoginSaved(c)
    PROVE  IInv'
<1>1. call[c] \in Call /\ call[c].token \in Token /\ call[c].at \in Carrying
  BY DEF IInv, FlightInv, Call, LoginAnswered, LoginSaved, Carrying
<1>2. call[c].account \in Accounts
  BY <1>1 DEF IInv, FlightInv, Placed, Carrying
<1>3. FlightInv'
  <2>1. CASE Goes(c, [call[c] EXCEPT !.at = "loginSaving"]) /\ UNCHANGED pending
    <3>1. "loginSaving" \in Places /\ "loginSaving" \in Carrying
      BY DEF Places, Carrying
    <3> QED
      BY <1>1, <1>2, <2>1, <3>1, CallGoesOn DEF IInv
  <2>2. CASE \E ok \in BOOLEAN : Settle(c, ok)
    BY <1>1, <2>2, FlightSettles DEF IInv
  <2> QED
    BY <2>1, <2>2 DEF LoginAnswered, LoginSaved
<1>4. TypeOK'
  <2>1. held' \in [Accounts -> Token] /\ stored' \in [Accounts -> Token] /\ reauth' \in [Accounts -> BOOLEAN]
    BY <1>1, <1>2 DEF IInv, TypeOK, LoginAnswered, LoginSaved, Set
  <2> QED
    BY <1>3, <2>1 DEF IInv, TypeOK, FlightInv, LoginAnswered, LoginSaved, choice
<1> QED
  BY <1>3, <1>4 DEF IInv

LEMMA RenewalSteps ==
    ASSUME IInv, NEW c \in Callers, RenewAnswered(c) \/ RenewSaved(c) \/ RenewCleared(c)
    PROVE  IInv'
<1>1. call[c] \in Call /\ call[c].token \in Token /\ call[c].at \in Carrying
  BY DEF IInv, FlightInv, Call, RenewAnswered, RenewSaved, RenewCleared, Carrying
<1>2. call[c].account \in Accounts
  BY <1>1 DEF IInv, FlightInv, Placed, Carrying
<1>3. Issued \in Token /\ Issued.id \in Nat
  BY BrokerSessionAssumption DEF Issued, Token, IInv, TypeOK, BrokerSessionAssumption
<1>4. FlightInv'
  <2>1. CASE RenewalFails(c) /\ UNCHANGED pending
    <3>1. "renewClearing" \in Places /\ "renewClearing" \in Carrying
      BY DEF Places, Carrying
    <3> QED
      BY <1>1, <1>2, <2>1, <3>1, CallGoesOn DEF IInv, RenewalFails
  <2>2. CASE Goes(c, [call[c] EXCEPT !.at = "renewSaving", !.token = Issued]) /\ UNCHANGED pending
    <3>1. "renewSaving" \in Places /\ "renewSaving" \in Carrying
      BY DEF Places, Carrying
    <3> QED
      BY <1>1, <1>2, <1>3, <2>2, <3>1, CallGoesOn DEF IInv
  <2>3. CASE \E ok \in BOOLEAN : Settle(c, ok)
    BY <1>1, <2>3, FlightSettles DEF IInv
  <2> QED
    BY <2>1, <2>2, <2>3 DEF RenewAnswered, RenewSaved, RenewCleared
<1>5. TypeOK'
  <2>1. held' \in [Accounts -> Token] /\ stored' \in [Accounts -> Token] /\ reauth' \in [Accounts -> BOOLEAN]
    <3>1. \A token \in Token : /\ Set(held, c, token) \in [Accounts -> Token]
                               /\ Set(stored, c, token) \in [Accounts -> Token]
      BY DEF IInv, TypeOK, Set
    <3>2. \A b \in BOOLEAN : Set(reauth, c, b) \in [Accounts -> BOOLEAN]
      BY DEF IInv, TypeOK, Set
    <3>3. held' \in {held, Set(held, c, NoToken), Set(held, c, Issued)}
      BY DEF RenewAnswered, RenewSaved, RenewCleared, RenewalFails
    <3>4. stored' \in {stored, Set(stored, c, NoToken), Set(stored, c, call[c].token)}
      BY DEF RenewAnswered, RenewSaved, RenewCleared
    <3>5. reauth' \in {reauth, Set(reauth, c, TRUE), Set(reauth, c, FALSE)}
      BY DEF RenewAnswered, RenewSaved, RenewCleared, RenewalFails
    <3> QED
      <4>1. held' \in [Accounts -> Token]
        BY <1>3, <3>1, <3>3, Constants DEF IInv, TypeOK
      <4>2. stored' \in [Accounts -> Token]
        BY <1>1, <3>1, <3>4, Constants DEF IInv, TypeOK
      <4>3. reauth' \in [Accounts -> BOOLEAN]
        BY <3>2, <3>5 DEF IInv, TypeOK
      <4> QED
        BY <4>1, <4>2, <4>3
  <2>2. broker' \in [issued : Nat, honoured : SUBSET Nat]
    <3>1. \/ UNCHANGED broker
          \/ broker' = [issued |-> Issued.id,
                        honoured |-> (broker.honoured \ {call[c].token.id}) \cup {Issued.id}]
      BY DEF RenewAnswered, RenewSaved, RenewCleared
    <3>2. broker.honoured \in SUBSET Nat
      BY DEF IInv, TypeOK
    <3> QED
      BY <1>3, <3>1, <3>2 DEF IInv, TypeOK
  <2> QED
    BY <1>4, <2>1, <2>2 DEF IInv, TypeOK, FlightInv, RenewAnswered, RenewSaved, RenewCleared, choice
<1> QED
  BY <1>4, <1>5 DEF IInv

LEMMA LogoutSteps ==
    ASSUME IInv, NEW c \in Callers,
           LogoutCleared(c) \/ LoggedOut(c) \/ Marked(c) \/ Deleted(c) \/ Upserted(c) \/ SwitchEnds(c)
    PROVE  IInv'
<1>1. call[c] \in Call /\ call[c].token \in Token /\ call[c].account \in Accounts \cup {NoAccount}
  BY DEF IInv, FlightInv, Call
<1>2. /\ call[c].at \in {"loggingOut", "loggedOut", "marking", "deleting", "upserting", "upserted"}
      /\ call[c].at \notin Carrying
  BY DEF LogoutCleared, LoggedOut, Marked, Deleted, Upserted, SwitchEnds, Carrying
<1>3. call[c].at \notin {"upserting", "upserted"} => call[c].account \in Accounts
  BY <1>2 DEF IInv, FlightInv, Placed
<1>4. FlightInv'
  <2>1. UNCHANGED pending
    BY DEF LogoutCleared, LoggedOut, Marked, Deleted, Upserted, SwitchEnds, sessions
  <2>2. \/ Returns(c)
        \/ Goes(c, [call[c] EXCEPT !.at = "loggedOut"]) /\ call[c].account \in Accounts
        \/ Goes(c, [call[c] EXCEPT !.at = "deleting"]) /\ call[c].account \in Accounts
        \/ Goes(c, [call[c] EXCEPT !.at = "upserting"])
        \/ Goes(c, [call[c] EXCEPT !.at = "upserted"])
    BY <1>3 DEF LogoutCleared, LoggedOut, Marked, Deleted, Upserted, SwitchEnds, AfterLogout
  <2>3. {"loggedOut", "deleting", "upserting", "upserted"} \subseteq Places \ (Carrying \cup {"joined"})
    BY DEF Places, Carrying
  <2>4. ASSUME NEW p \in {"loggedOut", "deleting", "upserting", "upserted"},
               p \in {"upserting", "upserted"} \/ call[c].account \in Accounts,
               Goes(c, [call[c] EXCEPT !.at = p])
        PROVE  FlightInv'
    BY <1>1, <1>2, <2>1, <2>3, <2>4, CallGoesOn DEF IInv
  <2> QED
    BY <1>2, <2>1, <2>2, <2>4, CallReturns DEF IInv
<1>5. TypeOK'
  <2>1. held' \in [Accounts -> Token] /\ stored' \in [Accounts -> Token]
    BY Constants DEF IInv, TypeOK, LogoutCleared, LoggedOut, Marked, Deleted, Upserted, SwitchEnds,
                     Set, sessions
  <2>2. reauth' \in [Accounts -> BOOLEAN]
    BY DEF IInv, TypeOK, LogoutCleared, LoggedOut, Marked, Deleted, Upserted, SwitchEnds, Set, sessions
  <2>3. record' \in [Accounts -> [status : {"absent", "saved", "active"}, token : Token]]
    <3>1. \/ UNCHANGED record
          \/ record' = [record EXCEPT ![call[c].account] = Absent]
          \/ record' = [record EXCEPT ![call[c].account].status = "active"]
      BY DEF LogoutCleared, LoggedOut, Marked, Deleted, Upserted, SwitchEnds
    <3>2. Absent \in [status : {"absent", "saved", "active"}, token : Token]
      BY Constants DEF Absent
    <3>3. CASE record' = [record EXCEPT ![call[c].account].status = "active"]
      <4>1. \A a \in Accounts :
              [record[a] EXCEPT !.status = "active"]
                \in [status : {"absent", "saved", "active"}, token : Token]
        BY DEF IInv, TypeOK
      <4> QED
        BY <3>3, <4>1 DEF IInv, TypeOK
    <3>4. CASE record' = [record EXCEPT ![call[c].account] = Absent]
      BY <3>2, <3>4 DEF IInv, TypeOK
    <3>5. CASE UNCHANGED record
      BY <3>5 DEF IInv, TypeOK
    <3> QED
      BY <3>1, <3>3, <3>4, <3>5
  <2>4. /\ mode' \in {"PAPER", "LIVE"} /\ selected' \in Accounts \cup {NoAccount}
        /\ mode' = "LIVE" <=> selected' # NoAccount
        /\ armed' \subseteq Accounts
    BY <1>1 DEF IInv, TypeOK, LogoutCleared, LoggedOut, Marked, Deleted, Upserted, SwitchEnds, choice
  <2>5. UNCHANGED <<clock, due, broker>>
    BY DEF LogoutCleared, LoggedOut, Marked, Deleted, Upserted, SwitchEnds
  <2> QED
    BY <1>4, <2>1, <2>2, <2>3, <2>4, <2>5 DEF IInv, TypeOK, FlightInv
<1> QED
  BY <1>4, <1>5 DEF IInv

LEMMA CallRefreshes ==
    ASSUME IInv, NEW c \in Callers, call[c].at \notin Carrying,
           NEW k \in Call, k.account \in Accounts, Refreshes(c, k)
    PROVE  FlightInv' /\ reauth' \in [Accounts -> BOOLEAN]
<1>1. CASE pending[k.account] = NoCall /\ held[k.account] = NoToken
  BY <1>1, CallReturns DEF IInv, TypeOK, Refreshes
<1>2. CASE ~(pending[k.account] = NoCall /\ held[k.account] = NoToken)
  <2>1. "renewing" \in Carrying /\ held[k.account] \in Token
    BY DEF Carrying, IInv, TypeOK
  <2> QED
    BY <1>2, <2>1, CallAuthenticates DEF IInv, TypeOK, Refreshes
<1> QED
  BY <1>1, <1>2

LEMMA RequestSteps ==
    ASSUME IInv, NEW c \in Callers, Ensure(c) \/ FindToken(c) \/ Restored(c) \/ Sent(c)
    PROVE  IInv'
<1>1. call[c] \in Call /\ call[c].token \in Token /\ call[c].attempt \in Nat
  BY DEF IInv, FlightInv, Call
<1>2. call[c].at \in {"ensuring", "finding", "found", "sending"} /\ call[c].at \notin Carrying
  BY DEF Ensure, FindToken, Restored, Sent, Carrying
<1>3. call[c].account \in Accounts
  BY <1>2 DEF IInv, FlightInv, Placed
<1>4. {"finding", "found", "sending"} \subseteq Places \ (Carrying \cup {"joined"})
  BY DEF Places, Carrying
<1>5. held[call[c].account] \in Token /\ stored[call[c].account] \in Token
  BY <1>3 DEF IInv, TypeOK
<1>6. CASE Ensure(c)
  <2>1. UNCHANGED pending
    BY <1>6 DEF Ensure, sessions
  <2>5. FlightInv'
    <3>2. CASE pending[call[c].account] # NoCall
      <4> DEFINE k == [call[c] EXCEPT !.at = "joined"]
      <4>1. k \in Call /\ k.at = "joined" /\ k.account = call[c].account
        BY <1>1 DEF Call, Places
      <4>2. Goes(c, k)
        BY <1>6, <3>2 DEF Ensure
      <4>3. "joined" \notin Carrying
        BY DEF Carrying
      <4> HIDE DEF k
      <4> QED
        BY <1>2, <1>3, <2>1, <3>2, <4>1, <4>2, <4>3, CallMoves DEF IInv
    <3>3. CASE /\ pending[call[c].account] = NoCall
               /\ Valid(held[call[c].account])
      <4>1. Goes(c, [call[c] EXCEPT !.at = "sending", !.token = held[call[c].account], !.attempt = 1])
        BY <1>6, <3>3 DEF Ensure
      <4> QED
        BY <1>2, <1>3, <1>4, <1>5, <2>1, <4>1, CallGoesOn DEF IInv
    <3>4. CASE /\ pending[call[c].account] = NoCall
               /\ ~Valid(held[call[c].account])
      <4>1. Goes(c, [call[c] EXCEPT !.at = "finding"])
        BY <1>6, <3>4 DEF Ensure
      <4> QED
        BY <1>1, <1>2, <1>3, <1>4, <2>1, <4>1, CallGoesOn DEF IInv
    <3> QED
      BY <3>2, <3>3, <3>4
  <2> QED
    BY <1>6, <2>5, RestUnchanged DEF Ensure, sessions, choice
<1>7. CASE FindToken(c)
  <2>1. UNCHANGED pending /\ Goes(c, [call[c] EXCEPT !.at = "found", !.token = stored[call[c].account]])
    BY <1>7 DEF FindToken, sessions
  <2>2. FlightInv'
    BY <1>2, <1>3, <1>4, <1>5, <2>1, CallGoesOn DEF IInv
  <2> QED
    BY <1>7, <2>2, RestUnchanged DEF FindToken, sessions, choice
<1>8. CASE Restored(c)
  <2>1. UNCHANGED pending
    BY <1>8 DEF Restored
  <2>2. Goes(c, [call[c] EXCEPT !.at = "sending", !.attempt = 1]) \/ Returns(c)
    BY <1>8 DEF Restored, Returns
  <2>3. FlightInv'
    <3>1. CASE Goes(c, [call[c] EXCEPT !.at = "sending", !.attempt = 1])
      BY <1>1, <1>2, <1>3, <1>4, <2>1, <3>1, CallGoesOn DEF IInv
    <3> QED
      BY <1>2, <2>1, <2>2, <3>1, CallReturns DEF IInv
  <2>4. held' \in [Accounts -> Token] /\ reauth' \in [Accounts -> BOOLEAN]
    <3>1. Valid(call[c].token) \in BOOLEAN
      BY DEF Valid
    <3>2. held' \in {Set(held, c, call[c].token), Set(held, c, NoToken)}
      BY <1>8 DEF Restored
    <3>3. held' \in [Accounts -> Token]
      BY <1>1, <3>2, Constants DEF IInv, TypeOK, Set
    <3>4. reauth' = [reauth EXCEPT ![call[c].account] = ~Valid(call[c].token)]
      BY <1>8 DEF Restored, Set
    <3>5. reauth' \in [Accounts -> BOOLEAN]
      BY <3>1, <3>4, Zenon DEF IInv, TypeOK
    <3> QED
      BY <3>3, <3>5
  <2> QED
    BY <1>8, <2>3, <2>4 DEF Restored, IInv, TypeOK, FlightInv, choice
<1>9. CASE Sent(c)
  <2> DEFINE k == [call[c] EXCEPT !.retried = TRUE]
  <2>1. k \in Call /\ k.account = call[c].account
    BY <1>1 DEF Call
  <2>2. \/ Returns(c) /\ UNCHANGED <<reauth, pending>>
        \/ Goes(c, [call[c] EXCEPT !.attempt = @ + 1]) /\ UNCHANGED <<reauth, pending>>
        \/ Refreshes(c, k)
    BY <1>9 DEF Sent
  <2> HIDE DEF k
  <2>3. FlightInv' /\ reauth' \in [Accounts -> BOOLEAN]
    <3>1. CASE Returns(c) /\ UNCHANGED <<reauth, pending>>
      BY <1>2, <3>1, CallReturns DEF IInv, TypeOK
    <3>2. CASE Goes(c, [call[c] EXCEPT !.attempt = @ + 1]) /\ UNCHANGED <<reauth, pending>>
      <4> DEFINE j == [call[c] EXCEPT !.attempt = @ + 1]
      <4>1. j \in Call /\ j.at = call[c].at /\ j.account = call[c].account
        BY <1>1 DEF Call
      <4>2. Goes(c, j)
        BY <3>2
      <4> HIDE DEF j
      <4> QED
        BY <1>2, <1>3, <3>2, <4>1, <4>2, CallMoves DEF IInv, TypeOK
    <3>3. CASE Refreshes(c, k)
      BY <1>2, <1>3, <2>1, <3>3, CallRefreshes
    <3> QED
      BY <2>2, <3>1, <3>2, <3>3
  <2> QED
    BY <1>9, <2>3 DEF Sent, IInv, TypeOK, FlightInv, choice
<1> QED
  BY <1>6, <1>7, <1>8, <1>9

LEMMA ContinueSteps ==
    ASSUME IInv, NEW c \in Callers, Continue(c)
    PROVE  IInv'
BY LoginSteps, RenewalSteps, LogoutSteps, RequestSteps DEF Continue

-----------------------------------------------------------------------------
(* How a call begins *)

(* A call begins at a place, in its part. *)
LEMMA CallBegins ==
    ASSUME FlightInv, NEW c \in Callers, Free(c), NEW k \in Call, Goes(c, k), UNCHANGED pending,
           k.at \notin Carrying \cup {"joined"},
           k.at \in {"idle", "upserting", "upserted"} \/ k.account \in Accounts
    PROVE  FlightInv'
<1>1. call[c].at \notin Carrying
  BY DEF Free, Carrying
<1> QED
  BY <1>1, CallMoves

LEMMA CallActivates ==
    ASSUME IInv, NEW c \in Callers, Free(c), NEW k \in Call, k.account \in Accounts, Activates(c, k)
    PROVE  FlightInv'
<1>1. call[c].at \notin Carrying /\ "login" \in Carrying
  BY DEF Free, Carrying
<1>2. record[k.account].token \in Token
  BY DEF IInv, TypeOK
<1> QED
  BY <1>1, <1>2, CallAuthenticates DEF IInv, Activates

LEMMA CallReconnects ==
    ASSUME IInv, NEW c \in Callers, Free(c), NEW k \in Call, k.account \in Accounts,
           NEW then \in Call, then.at = "upserting", Reconnects(c, k, then)
    PROVE  FlightInv'
<1>1. CASE Valid(held[k.account])
  <2>1. then.at \notin Carrying \cup {"joined"}
    BY DEF Carrying
  <2>2. Goes(c, then) /\ UNCHANGED pending
    BY <1>1 DEF Reconnects
  <2> QED
    BY <2>1, <2>2, CallBegins DEF IInv
<1>2. CASE ~Valid(held[k.account])
  BY <1>2, CallActivates DEF Reconnects
<1> QED
  BY <1>1, <1>2

LEMMA BeginSteps ==
    ASSUME IInv, NEW c \in Calls, Begin(c)
    PROVE  IInv'
<1>1. c \in Callers
  BY DEF Callers
<1>2. {"loggingOut", "deleting", "ensuring", "upserting", "idle"}
        \subseteq Places \ (Carrying \cup {"joined"})
  BY DEF Places, Carrying
<1>3. {"activate", "switch", "select", "request", "bootstrap", "disconnect", "remove"} \subseteq Ops
  BY DEF Ops
<1>4. ASSUME NEW a \in Accounts, Activate(c, a)
      PROVE  IInv'
  <2> DEFINE k == [Idle EXCEPT !.op = "activate", !.account = a]
  <2>1. k \in Call /\ k.account = a
    BY <1>2, <1>3, Constants DEF Idle, Call
  <2>2. Activates(c, k) /\ Free(c)
    BY <1>4 DEF Activate, Starts
  <2> HIDE DEF k
  <2>3. FlightInv'
    BY <1>1, <2>1, <2>2, CallActivates
  <2> QED
    BY <1>4, <2>3, RestUnchanged DEF Activate, choice
<1>5. ASSUME NEW a \in Accounts, Disconnect(c, a)
      PROVE  IInv'
  <2> DEFINE k == [Idle EXCEPT !.op = "disconnect", !.account = a, !.at = "loggingOut"]
  <2>1. k \in Call /\ k.account = a /\ k.at = "loggingOut"
    BY <1>2, <1>3, Constants DEF Idle, Call
  <2>2. Goes(c, k) /\ Free(c) /\ UNCHANGED pending
    BY <1>5 DEF Disconnect, Starts, sessions
  <2> HIDE DEF k
  <2>3. FlightInv'
    BY <1>1, <1>2, <2>1, <2>2, CallBegins DEF IInv
  <2> QED
    BY <1>5, <2>3, RestUnchanged DEF Disconnect, sessions, choice
<1>6. ASSUME NEW a \in Accounts, Remove(c, a)
      PROVE  IInv'
  <2>1. PICK p \in {"loggingOut", "deleting"} :
          Goes(c, [Idle EXCEPT !.op = "remove", !.account = a, !.at = p])
    BY <1>6 DEF Remove
  <2> DEFINE k == [Idle EXCEPT !.op = "remove", !.account = a, !.at = p]
  <2>2. k \in Call /\ k.account = a /\ k.at = p
    BY <1>2, <1>3, Constants DEF Idle, Call
  <2>3. Goes(c, k) /\ Free(c) /\ UNCHANGED pending
    BY <1>6, <2>1 DEF Remove, Starts, sessions
  <2> HIDE DEF k
  <2>4. FlightInv'
    BY <1>1, <1>2, <2>2, <2>3, CallBegins DEF IInv
  <2> QED
    BY <1>6, <2>4, RestUnchanged DEF Remove, sessions, choice
<1>7. ASSUME NEW a \in Accounts, SwitchToLive(c, a) \/ Select(c, a)
      PROVE  IInv'
  <2>1. Free(c) /\ selected \in Accounts \cup {NoAccount}
    BY <1>7 DEF SwitchToLive, Select, Starts, IInv, TypeOK
  <2>2. PICK k \in Call : /\ k.account = a /\ k.at = "idle"
                          /\ Reconnects(c, k, [k EXCEPT !.at = "upserting"])
    <3>1. CASE SwitchToLive(c, a)
      <4> DEFINE k == [Idle EXCEPT !.op = "switch", !.account = a, !.previous = selected]
      <4>1. k \in Call /\ k.account = a /\ k.at = "idle"
        BY <1>2, <1>3, <2>1, Constants DEF Idle, Call
      <4>2. Reconnects(c, k, [k EXCEPT !.at = "upserting"])
        BY <3>1 DEF SwitchToLive
      <4> HIDE DEF k
      <4> QED
        BY <4>1, <4>2
    <3>2. CASE Select(c, a)
      <4> DEFINE k == [Idle EXCEPT !.op = "select", !.account = a]
      <4>1. k \in Call /\ k.account = a /\ k.at = "idle"
        BY <1>2, <1>3, Constants DEF Idle, Call
      <4>2. Reconnects(c, k, [k EXCEPT !.at = "upserting"])
        BY <3>2 DEF Select
      <4> HIDE DEF k
      <4> QED
        BY <4>1, <4>2
    <3> QED
      BY <1>7, <3>1, <3>2
  <2>3. [k EXCEPT !.at = "upserting"] \in Call /\ [k EXCEPT !.at = "upserting"].at = "upserting"
    BY <1>2 DEF Call
  <2>4. FlightInv'
    BY <1>1, <2>1, <2>2, <2>3, CallReconnects
  <2> QED
    BY <1>7, <2>4, RestUnchanged DEF SwitchToLive, Select, choice
<1>8. ASSUME NEW a \in Accounts, NEW entry \in BOOLEAN, Request(c, a, entry)
      PROVE  IInv'
  <2> DEFINE k == [Idle EXCEPT !.op = "request", !.account = a, !.at = "ensuring"]
  <2>1. k \in Call /\ k.account = a /\ k.at = "ensuring"
    BY <1>2, <1>3, Constants DEF Idle, Call
  <2>2. Goes(c, k) /\ Free(c) /\ UNCHANGED pending
    BY <1>8 DEF Request, Starts, sessions
  <2> HIDE DEF k
  <2>3. FlightInv'
    BY <1>1, <1>2, <2>1, <2>2, CallBegins DEF IInv
  <2> QED
    BY <1>8, <2>3, RestUnchanged DEF Request, sessions
<1>9. ASSUME SwitchToPaper(c)
      PROVE  IInv'
  <2> DEFINE k == [Idle EXCEPT !.op = "switch", !.previous = selected, !.at = "upserting"]
  <2>1. k \in Call /\ k.at = "upserting"
    BY <1>2, <1>3, Constants DEF Idle, Call, IInv, TypeOK
  <2>2. Goes(c, k) /\ Free(c) /\ UNCHANGED pending
    BY <1>9 DEF SwitchToPaper, Starts, sessions
  <2> HIDE DEF k
  <2>3. FlightInv'
    BY <1>1, <1>2, <2>1, <2>2, CallBegins DEF IInv
  <2> QED
    BY <1>9, <2>3, RestUnchanged DEF SwitchToPaper, sessions, choice
<1>10. ASSUME Bootstrap(c)
       PROVE  IInv'
  <2> DEFINE k == [Idle EXCEPT !.op = "bootstrap", !.account = selected]
  <2>1. selected \in Accounts /\ Free(c) /\ call[c].at \notin Carrying
    BY <1>10 DEF Bootstrap, Starts, Free, Carrying, IInv, TypeOK
  <2>2. k \in Call /\ k.account = selected
    BY <1>2, <1>3, <2>1, Constants DEF Idle, Call
  <2>3. Refreshes(c, k) \/ (Authenticates(c, k, "login", EnvToken) /\ UNCHANGED reauth)
    BY <1>10 DEF Bootstrap
  <2> HIDE DEF k
  <2>4. CASE Refreshes(c, k)
    <3>1. FlightInv' /\ reauth' \in [Accounts -> BOOLEAN]
      BY <1>1, <2>1, <2>2, <2>4, CallRefreshes
    <3>2. TypeOK'
      BY <1>10, <3>1 DEF Bootstrap, IInv, TypeOK, FlightInv, choice
    <3> QED
      BY <3>1, <3>2 DEF IInv
  <2>5. CASE Authenticates(c, k, "login", EnvToken) /\ UNCHANGED reauth
    <3>1. "login" \in Carrying
      BY DEF Carrying
    <3>2. FlightInv'
      BY <1>1, <2>1, <2>2, <2>5, <3>1, CallAuthenticates, Constants DEF IInv
    <3> QED
      BY <1>10, <2>5, <3>2, RestUnchanged DEF Bootstrap, choice
  <2> QED
    BY <2>3, <2>4, <2>5
<1> QED
  BY <1>4, <1>5, <1>6, <1>7, <1>8, <1>9, <1>10 DEF Begin

-----------------------------------------------------------------------------
(* The timer, the clock, the accounts, and the end of the process *)

LEMMA OtherSteps ==
    ASSUME IInv, Renew \/ Tick \/ Arm \/ Crash \/ Shutdown \/ \E a \in Accounts : AddAccount(a)
    PROVE  IInv'
<1>1. CASE Renew
  <2>1. FlightInv'
    BY <1>1, TimerRenews
  <2>2. due' \in Nat
    <3>1. due' = clock + Interval /\ clock \in Nat
      BY <1>1 DEF Renew, IInv, TypeOK
    <3> QED
      BY <3>1, Constants
  <2> QED
    BY <1>1, <2>1, <2>2 DEF Renew, IInv, TypeOK, FlightInv, choice
<1>2. CASE Tick
  <2>1. FlightInv'
    BY <1>2 DEF Tick, sessions, IInv, FlightInv, Placed, Carried, Joined
  <2> QED
    BY <1>2, <2>1 DEF Tick, IInv, TypeOK, FlightInv, sessions, choice
<1>3. CASE Arm
  <2>1. FlightInv'
    BY <1>3 DEF Arm, sessions, IInv, FlightInv, Placed, Carried, Joined
  <2> QED
    BY <1>3, <2>1 DEF Arm, IInv, TypeOK, FlightInv, sessions
<1>4. CASE Crash \/ Shutdown
  <2>1. MemoryIsLost
    BY <1>4 DEF Crash, Shutdown
  <2>2. FlightInv'
    BY <2>1, MemoryGoes DEF IInv
  <2>3. /\ held' \in [Accounts -> Token] /\ reauth' \in [Accounts -> BOOLEAN] /\ due' \in Nat
    BY <2>1, Constants, BrokerSessionAssumption
       DEF MemoryIsLost, IInv, TypeOK, BrokerSessionAssumption
  <2>4. stored' \in [Accounts -> Token]
    BY <1>4, Constants DEF Crash, Shutdown, IInv, TypeOK
  <2> QED
    BY <1>4, <2>2, <2>3, <2>4 DEF Crash, Shutdown, IInv, TypeOK, FlightInv, choice
<1>5. ASSUME NEW a \in Accounts, AddAccount(a)
      PROVE  IInv'
  <2>1. FlightInv'
    BY <1>5 DEF AddAccount, sessions, IInv, FlightInv, Placed, Carried, Joined
  <2>2. Issued \in Token /\ broker.issued + 1 \in Nat
    BY BrokerSessionAssumption DEF Issued, Token, IInv, TypeOK, BrokerSessionAssumption
  <2>3. record' \in [Accounts -> [status : {"absent", "saved", "active"}, token : Token]]
    BY <1>5, <2>2 DEF AddAccount, IInv, TypeOK
  <2>4. broker' \in [issued : Nat, honoured : SUBSET Nat]
    BY <1>5, <2>2 DEF AddAccount, IInv, TypeOK
  <2> QED
    BY <1>5, <2>1, <2>3, <2>4 DEF AddAccount, IInv, TypeOK, FlightInv, sessions, choice
<1> QED
  BY <1>1, <1>2, <1>3, <1>4, <1>5

-----------------------------------------------------------------------------
LEMMA Initially == Init => IInv
<1> SUFFICES ASSUME Init PROVE IInv
  OBVIOUS
<1>1. /\ pending = [a \in Accounts |-> NoCall]
      /\ call = [c \in Callers |-> Idle]
      /\ clock = 0 /\ due = Interval /\ broker = [issued |-> 1, honoured |-> {1}]
      /\ reauth = [a \in Accounts |-> FALSE]
  BY DEF Init, Callers
<1>2. FlightInv
  BY <1>1, Constants DEF FlightInv, Placed, Carried, Joined, Carrying
<1>3. PICK a \in Accounts \cup {NoAccount} :
        /\ selected = a
        /\ armed = {a} \ {NoAccount}
        /\ mode = IF a = NoAccount THEN "PAPER" ELSE "LIVE"
        /\ held = [b \in Accounts |-> IF b = a THEN EnvToken ELSE NoToken]
        /\ stored = held
        /\ record = [b \in Accounts |-> IF b = a THEN [status |-> "active", token |-> EnvToken]
                                                ELSE Absent]
  BY BrokerSessionAssumption DEF Init, BrokerSessionAssumption
<1>4. held \in [Accounts -> Token] /\ stored \in [Accounts -> Token]
  BY <1>3, Constants
<1>5. record \in [Accounts -> [status : {"absent", "saved", "active"}, token : Token]]
  BY <1>3, Constants DEF Absent
<1>6. TypeOK
  BY <1>1, <1>2, <1>3, <1>4, <1>5, BrokerSessionAssumption
     DEF TypeOK, FlightInv, BrokerSessionAssumption
<1> QED
  BY <1>2, <1>6 DEF IInv

LEMMA StepKeeps == IInv /\ [Next]_vars => IInv'
<1> SUFFICES ASSUME IInv, [Next]_vars PROVE IInv'
  OBVIOUS
<1>1. CASE Next
  BY <1>1, BeginSteps, ContinueSteps, OtherSteps DEF Next, Callers
<1>2. CASE UNCHANGED vars
  BY <1>2 DEF vars, sessions, choice, IInv, TypeOK, FlightInv, Placed, Carried, Joined
<1> QED
  BY <1>1, <1>2

(* The calls and `pendingAuth` agree at all times. *)
THEOREM Inductive == Spec => []IInv
BY Initially, StepKeeps, PTL DEF Spec

(* Everything has its type; a LIVE user has an account, and a PAPER user none *)
(* (TradingModeService).                                                     *)
THEOREM TypeCorrect == Spec => []TypeOK
<1>1. IInv => TypeOK
  BY DEF IInv
<1> QED
  BY <1>1, Inductive, PTL

(* An account is authenticated once at a time, whoever asks, and whoever      *)
(* waits for an attempt waits for one that is under way (pendingAuth).        *)
THEOREM SingleFlightHolds == Spec => []SingleFlight
<1>1. IInv => OneAttempt
  <2> SUFFICES ASSUME IInv, NEW a \in Accounts PROVE Cardinality(Attempts(a)) <= 1
    BY DEF OneAttempt
  <2>1. Attempts(a) \subseteq {pending[a]}
    BY DEF Attempts, IInv, FlightInv, Carried
  <2>2. IsFiniteSet({pending[a]}) /\ Cardinality({pending[a]}) = 1
    BY FS_Singleton
  <2>3. Cardinality(Attempts(a)) <= Cardinality({pending[a]})
    BY <2>1, <2>2, FS_Subset
  <2> QED
    BY <2>2, <2>3
<1>2. IInv => JoinedIsCarried
  <2> SUFFICES ASSUME IInv, NEW a \in Accounts
               PROVE  \/ /\ pending[a] = NoCall
                         /\ \A c \in Callers : call[c].at = "joined" => call[c].account # a
                      \/ /\ pending[a] # NoCall
                         /\ call[pending[a]].account = a
                         /\ call[pending[a]].at \in Carrying
    BY DEF JoinedIsCarried
  <2>1. pending[a] \in Callers \cup {NoCall}
    BY DEF IInv, FlightInv
  <2> QED
    BY <2>1 DEF IInv, FlightInv, Carried, Joined
<1> QED
  BY <1>1, <1>2, Inductive, PTL DEF SingleFlight

-----------------------------------------------------------------------------
(* Whose the tokens are *)

(* A token that account `a` has, or that anybody may have *)
Has(a, i) == i \in Tokens(a) \cup Common

(* What a call may become: with a token of its account; a request only where
   there are requests, and alone at their places. *)
Fine(k) ==
    /\ k.account \in Accounts => Has(k.account, k.token.id)
    /\ k.at \in Requesting => k.op = "request"
    /\ k.op = "request" => "request" \in scenario

CallsFine == \A d \in Callers : Fine(call'[d])

LEMMA FineNow ==
    ASSUME IInv, TokenInv, NEW d \in Callers
    PROVE  Fine(call[d])
BY DEF TokenInv, RequestsOnly, Fine, Has, Tokens, IInv, TypeOK

LEMMA FineIdle == Fine(Idle)
BY Constants DEF Fine, Idle, Requesting

LEMMA GoesFine ==
    ASSUME IInv, TokenInv, NEW c \in Callers, NEW k, Fine(k), Goes(c, k)
    PROVE  CallsFine
BY FineNow DEF CallsFine, Goes, IInv, TypeOK

LEMMA ReturnsFine ==
    ASSUME IInv, TokenInv, NEW c \in Callers, Returns(c)
    PROVE  CallsFine
BY FineIdle, GoesFine DEF Returns

(* A call that goes on with the token it had *)
LEMMA MovesFine ==
    ASSUME IInv, TokenInv, NEW c \in Callers, NEW p, p \notin Requesting,
           Goes(c, [call[c] EXCEPT !.at = p])
    PROVE  CallsFine
<1> DEFINE k == [call[c] EXCEPT !.at = p]
<1>1. k.account = call[c].account /\ k.token = call[c].token /\ k.at = p /\ k.op = call[c].op
  BY DEF IInv, TypeOK, Call
<1>2. Goes(c, k)
  OBVIOUS
<1> HIDE DEF k
<1>3. Fine(k)
  BY <1>1, FineNow DEF Fine
<1> QED BY <1>2, <1>3, GoesFine

LEMMA AuthenticatesFine ==
    ASSUME IInv, TokenInv, NEW c \in Callers, NEW k \in Call, Fine(k), k.account \in Accounts,
           NEW at \in Carrying, NEW token, Has(k.account, token.id),
           Authenticates(c, k, at, token)
    PROVE  CallsFine
<1> DEFINE j == [k EXCEPT !.at = at, !.token = token]
           w == [k EXCEPT !.at = "joined"]
<1>1. /\ j.account = k.account /\ j.token = token /\ j.at = at /\ j.op = k.op
      /\ w.account = k.account /\ w.token = k.token /\ w.at = "joined" /\ w.op = k.op
  BY DEF Call
<1>2. Goes(c, j) \/ Goes(c, w)
  BY DEF Authenticates
<1> HIDE DEF j, w
<1>3. Fine(j) /\ Fine(w)
  BY <1>1 DEF Fine, Carrying, Requesting
<1> QED BY <1>2, <1>3, GoesFine

LEMMA RefreshesFine ==
    ASSUME IInv, TokenInv, NEW c \in Callers, NEW k \in Call, Fine(k), k.account \in Accounts,
           Refreshes(c, k)
    PROVE  CallsFine
<1>1. Has(k.account, held[k.account].id)
  BY DEF Has, Tokens
<1>2. CASE Returns(c)
  BY <1>2, ReturnsFine
<1>3. CASE Authenticates(c, k, "renewing", held[k.account])
  BY <1>1, <1>3, AuthenticatesFine DEF Carrying
<1> QED BY <1>2, <1>3 DEF Refreshes

LEMMA SettleFine ==
    ASSUME IInv, TokenInv, NEW c \in Callers, call[c].at \in Carrying, NEW ok \in BOOLEAN,
           Settle(c, ok)
    PROVE  CallsFine
<1>1. call[c].account \in Accounts /\ Has(call[c].account, call[c].token.id)
  BY FineNow DEF IInv, FlightInv, Placed, Carrying, Fine
<1> SUFFICES ASSUME NEW d \in Callers PROVE Fine(call'[d])
  BY DEF CallsFine
<1>2. CASE d # c /\ ~(call[d].at = "joined" /\ call[d].account = call[c].account)
  BY <1>2, FineNow DEF Settle, IInv, TypeOK
<1>3. CASE d = c \/ (call[d].at = "joined" /\ call[d].account = call[c].account)
  <2>1. call'[d] = Resumed(call[d], ok, call[c].token)
    BY <1>3 DEF Settle, IInv, TypeOK
  <2>2. call[d] \in Call /\ call[d].account = call[c].account /\ Fine(call[d])
    BY <1>3, FineNow DEF IInv, TypeOK
  <2>3. CASE ok /\ call[d].op = "request"
    BY <1>1, <2>1, <2>2, <2>3 DEF Resumed, Call, Fine
  <2>4. CASE ok /\ call[d].op \in {"activate", "switch", "select"}
    <3>1. call'[d] = [call[d] EXCEPT !.at = "marking"]
      BY <2>1, <2>4 DEF Resumed
    <3> QED BY <2>2, <3>1 DEF Call, Fine, Requesting
  <2>5. CASE ~ok \/ call[d].op \notin {"request", "activate", "switch", "select"}
    <3>1. call'[d] = Idle
      BY <2>1, <2>5 DEF Resumed
    <3> QED BY <3>1, FineIdle
  <2> QED BY <2>3, <2>4, <2>5
<1> QED BY <1>2, <1>3

(* No account gets another's token, and none that was not issued: a token is
   the account's own, or the one the broker issues to `a0` in this step. *)
Fresh(a, i, a0) == a = a0 /\ i = broker.issued + 1 /\ i = broker'.issued

LEMMA TokensMove ==
    ASSUME IInv, TokenInv, UNCHANGED scenario, NEW a0,
           \A a \in Accounts : \A i \in Tokens(a)' : Has(a, i) \/ Fresh(a, i, a0),
           \A d \in Callers : /\ call'[d].at \in Requesting => call'[d].op = "request"
                              /\ call'[d].op = "request" => "request" \in scenario,
           broker'.issued \in Nat, broker'.issued >= broker.issued,
           NoToken.id \notin broker'.honoured
    PROVE  TokensAreOwn' /\ TokensWereIssued' /\ RequestsOnly'
<1>1. broker.issued \in Nat
  BY DEF IInv, TypeOK
<1>2. \A a \in Accounts : \A i \in Tokens(a) \cup Common : i \in Nat /\ i <= broker.issued
  <2>1. \A a \in Accounts : \A i \in Tokens(a) : i \in Nat /\ i <= broker.issued
    BY DEF Tokens, IInv, TypeOK, Token, Call, TokenInv, TokensWereIssued
  <2>2. \A i \in Common : i \in Nat /\ i <= broker.issued
    BY DEF Common, NoToken, EnvToken, TokenInv, TokensWereIssued, IInv, TypeOK
  <2> QED BY <2>1, <2>2
<1>3. TokensAreOwn'
  <2> SUFFICES ASSUME NEW a \in Accounts, NEW b \in Accounts, a # b,
                      NEW i \in Tokens(a)', i \in Tokens(b)'
               PROVE  i \in Common
    BY DEF TokensAreOwn, Common, NoToken, EnvToken
  <2>1. Has(a, i) \/ Has(b, i)
    BY DEF Fresh
  <2>2. ~Fresh(a, i, a0) /\ ~Fresh(b, i, a0)
    BY <1>1, <1>2, <2>1 DEF Fresh, Has
  <2> QED BY <2>2 DEF Has, TokenInv, TokensAreOwn
<1>4. TokensWereIssued'
  <2>1. EnvToken.id <= broker'.issued
    BY DEF TokenInv, TokensWereIssued, EnvToken, IInv, TypeOK
  <2>2. \A a \in Accounts : \A i \in Tokens(a)' : i <= broker'.issued
    BY <1>1, <1>2 DEF Has, Fresh
  <2> QED BY <2>1, <2>2 DEF TokensWereIssued, NoToken, EnvToken
<1>5. RequestsOnly'
  BY DEF RequestsOnly
<1> QED BY <1>3, <1>4, <1>5

LEMMA TokensStay ==
    ASSUME IInv, TokenInv, CallsFine, UNCHANGED scenario,
           \A a \in Accounts : /\ Has(a, held'[a].id) /\ Has(a, stored'[a].id)
                               /\ Has(a, record'[a].token.id),
           broker'.issued \in Nat, broker'.issued >= broker.issued,
           NoToken.id \notin broker'.honoured
    PROVE  TokensAreOwn' /\ TokensWereIssued' /\ RequestsOnly'
<1>1. ASSUME NEW a \in Accounts, NEW i \in Tokens(a)' PROVE Has(a, i)
  <2>1. CASE \E d \in Callers : call'[d].account = a /\ call'[d].token.id = i
    BY <2>1 DEF CallsFine, Fine
  <2>2. CASE i \in {held'[a].id, stored'[a].id, record'[a].token.id}
    BY <2>2
  <2> QED BY <2>1, <2>2 DEF Tokens
<1>2. \A a \in Accounts : \A i \in Tokens(a)' : Has(a, i) \/ Fresh(a, i, NoAccount)
  BY <1>1
<1> QED BY <1>2, TokensMove DEF CallsFine, Fine

(* A session that is not replaced stays good while its token is. *)
LEMMA HeldStays ==
    ASSUME TokenInv, UNCHANGED <<scenario, clock>>, broker.honoured \subseteq broker'.honoured,
           \A a \in Accounts : held'[a] \in {held[a], NoToken}
    PROVE  HeldIsHonoured'
<1> SUFFICES ASSUME "request" \notin scenario, NEW a \in Accounts, Valid(held[a])', ~Shared(a)'
             PROVE  held'[a].id \in broker'.honoured
  BY DEF HeldIsHonoured
<1>1. held'[a] = held[a]
  BY DEF Valid, NoToken
<1>2. Valid(held[a]) /\ ~Shared(a)
  BY <1>1 DEF Valid, Shared, NoToken, EnvToken
<1> QED BY <1>1, <1>2 DEF TokenInv, HeldIsHonoured

(* A step of the calls that leaves the tokens where they are *)
LEMMA OnlyCalls ==
    ASSUME IInv, TokenInv, CallsFine,
           UNCHANGED <<scenario, clock, broker, held, stored, record>>
    PROVE  TokenInv'
<1>1. \A a \in Accounts : /\ Has(a, held'[a].id) /\ Has(a, stored'[a].id)
                          /\ Has(a, record'[a].token.id)
  BY DEF Has, Tokens
<1>2. /\ broker'.issued \in Nat /\ broker'.issued >= broker.issued
      /\ NoToken.id \notin broker'.honoured
  BY DEF IInv, TypeOK, TokenInv, TokensWereIssued
<1>3. TokensAreOwn' /\ TokensWereIssued' /\ RequestsOnly'
  BY <1>1, <1>2, TokensStay
<1>4. HeldIsHonoured'
  BY HeldStays
<1> QED BY <1>3, <1>4 DEF TokenInv

-----------------------------------------------------------------------------
(* The steps, by what they do to the tokens *)
LEMMA Stores ==
    ASSUME IInv, TokenInv, CallsFine, UNCHANGED <<scenario, broker>>, HeldIsHonoured',
           \A a \in Accounts : /\ Has(a, held'[a].id) /\ Has(a, stored'[a].id)
                               /\ Has(a, record'[a].token.id)
    PROVE  TokenInv'
<1>1. /\ broker'.issued \in Nat /\ broker'.issued >= broker.issued
      /\ NoToken.id \notin broker'.honoured
  BY DEF IInv, TypeOK, TokenInv, TokensWereIssued
<1> QED BY <1>1, TokensStay DEF TokenInv

LEMMA HasOwn ==
    ASSUME NEW a \in Accounts
    PROVE  Has(a, held[a].id) /\ Has(a, stored[a].id) /\ Has(a, record[a].token.id)
           /\ Has(a, NoToken.id)
BY DEF Has, Tokens, Common

(* The account of a call, and its token *)
LEMMA CallsOwn ==
    ASSUME IInv, TokenInv, NEW c \in Callers,
           call[c].at \notin {"idle", "upserting", "upserted"}
    PROVE  /\ call[c].account \in Accounts /\ call[c] \in Call
           /\ Has(call[c].account, call[c].token.id)
BY FineNow DEF IInv, TypeOK, FlightInv, Placed, Fine

LEMMA LoginTokens ==
    ASSUME IInv, TokenInv, NEW c \in Callers, LoginAnswered(c) \/ LoginSaved(c)
    PROVE  TokenInv'
<1> DEFINE a == call[c].account
<1>1. /\ a \in Accounts /\ call[c] \in Call /\ Has(a, call[c].token.id)
      /\ call[c].at \in Carrying
  BY CallsOwn DEF LoginAnswered, LoginSaved, Carrying
<1>2. CASE LoginAnswered(c) /\ Settle(c, FALSE) /\ UNCHANGED held
  <2>1. CallsFine
    BY <1>1, <1>2, SettleFine
  <2> QED BY <1>2, <2>1, OnlyCalls DEF LoginAnswered
<1>3. CASE /\ LoginAnswered(c) /\ Honoured(call[c].token)
           /\ held' = Set(held, c, call[c].token)
           /\ Goes(c, [call[c] EXCEPT !.at = "loginSaving"])
  <2>1. CallsFine
    BY <1>3, MovesFine DEF Requesting
  <2>2. \A b \in Accounts : held'[b] = IF b = a THEN call[c].token ELSE held[b]
    BY <1>3 DEF Set, IInv, TypeOK
  <2>3. UNCHANGED <<scenario, clock, broker, stored, record>>
    BY <1>3 DEF LoginAnswered
  <2>4. HeldIsHonoured'
    <3> SUFFICES ASSUME "request" \notin scenario, NEW b \in Accounts, Valid(held[b])', ~Shared(b)'
                 PROVE  held'[b].id \in broker'.honoured
      BY <2>3 DEF HeldIsHonoured
    <3>1. CASE b = a
      BY <1>3, <2>2, <2>3, <3>1 DEF Honoured
    <3>2. CASE b # a
      <4>1. held'[b] = held[b] /\ Valid(held[b]) /\ ~Shared(b)
        BY <2>2, <2>3, <3>2 DEF Valid, Shared, NoToken, EnvToken
      <4> QED BY <2>3, <4>1 DEF TokenInv, HeldIsHonoured
    <3> QED BY <3>1, <3>2
  <2> QED BY <1>1, <2>1, <2>2, <2>3, <2>4, HasOwn, Stores
<1>4. CASE LoginSaved(c)
  <2>1. CallsFine
    BY <1>1, <1>4, SettleFine DEF LoginSaved
  <2>2. UNCHANGED <<scenario, clock, broker, held, record>>
    BY <1>4 DEF LoginSaved
  <2>3. \A b \in Accounts : Has(b, stored'[b].id)
    <3>1. stored' = stored \/ stored' = Set(stored, c, call[c].token)
      BY <1>4 DEF LoginSaved
    <3>2. \A b \in Accounts : stored'[b] \in {stored[b], IF b = a THEN call[c].token ELSE stored[b]}
      BY <3>1 DEF Set, IInv, TypeOK
    <3> QED BY <1>1, <3>2, HasOwn
  <2>4. HeldIsHonoured'
    BY <2>2, HeldStays
  <2> QED BY <2>1, <2>2, <2>3, <2>4, HasOwn, Stores
<1> QED BY <1>2, <1>3, <1>4 DEF LoginAnswered, LoginSaved

(* A failed renewal drops the session. *)
LEMMA FailsTokens ==
    ASSUME IInv, TokenInv, NEW c \in Callers, call[c].at \in Carrying, RenewalFails(c)
    PROVE  /\ CallsFine
           /\ \A b \in Accounts : held'[b] \in {held[b], NoToken}
           /\ held'[call[c].account] = NoToken
<1>1. call[c].account \in Accounts
  BY CallsOwn DEF Carrying
<1> QED BY <1>1, MovesFine DEF RenewalFails, Requesting, Set, IInv, TypeOK

LEMMA SavedTokens ==
    ASSUME IInv, TokenInv, NEW c \in Callers,
           RenewSaved(c) \/ RenewCleared(c) \/ LogoutCleared(c) \/ LoggedOut(c)
    PROVE  TokenInv'
<1> DEFINE a == call[c].account
<1>1. /\ a \in Accounts /\ call[c] \in Call /\ Has(a, call[c].token.id)
  BY CallsOwn DEF RenewSaved, RenewCleared, LogoutCleared, LoggedOut
<1>2. UNCHANGED <<scenario, clock, broker, record>>
  BY DEF RenewSaved, RenewCleared, LogoutCleared, LoggedOut
<1>3. CallsFine
  <2>1. CASE (RenewSaved(c) \/ RenewCleared(c)) /\ \E ok \in BOOLEAN : Settle(c, ok)
    BY <2>1, SettleFine DEF RenewSaved, RenewCleared, Carrying
  <2>2. CASE RenewSaved(c) /\ RenewalFails(c)
    BY <2>2, FailsTokens DEF RenewSaved, Carrying
  <2>3. CASE LogoutCleared(c) \/ LoggedOut(c)
    <3>1. \E p \in {"loggedOut", "deleting"} :
             Goes(c, [call[c] EXCEPT !.at = p]) \/ Returns(c)
      BY <2>3 DEF LogoutCleared, LoggedOut, AfterLogout
    <3> QED BY <3>1, MovesFine, ReturnsFine DEF Requesting
  <2> QED BY <2>1, <2>2, <2>3 DEF RenewSaved, RenewCleared
<1>4. \A b \in Accounts : held'[b] \in {held[b], NoToken}
  BY <1>1, FailsTokens
     DEF RenewSaved, RenewCleared, LogoutCleared, LoggedOut, Set, IInv, TypeOK, Carrying
<1>5. \A b \in Accounts : Has(b, stored'[b].id)
  <2>1. stored' \in {stored, Set(stored, c, call[c].token), Set(stored, c, NoToken)}
    BY DEF RenewSaved, RenewCleared, LogoutCleared, LoggedOut
  <2>2. \A b \in Accounts : \/ stored'[b] = stored[b] \/ stored'[b] = NoToken
                            \/ b = a /\ stored'[b] = call[c].token
    BY <2>1 DEF Set, IInv, TypeOK
  <2> QED BY <1>1, <2>2, HasOwn
<1>6. HeldIsHonoured'
  BY <1>2, <1>4, HeldStays
<1>7. \A b \in Accounts : Has(b, held'[b].id) /\ Has(b, record'[b].token.id)
  BY <1>2, <1>4, HasOwn
<1> QED BY <1>2, <1>3, <1>5, <1>6, <1>7, Stores

LEMMA RecordTokens ==
    ASSUME IInv, TokenInv, NEW c \in Callers,
           Marked(c) \/ Deleted(c) \/ Upserted(c) \/ SwitchEnds(c)
    PROVE  TokenInv'
<1>1. UNCHANGED <<scenario, clock, broker, stored>>
  BY DEF Marked, Deleted, Upserted, SwitchEnds, sessions
<1>2. CallsFine
  <2>1. \E p \in {"upserting", "upserted"} : Goes(c, [call[c] EXCEPT !.at = p]) \/ Returns(c)
    BY DEF Marked, Deleted, Upserted, SwitchEnds
  <2> QED BY <2>1, MovesFine, ReturnsFine DEF Requesting
<1>3. \A b \in Accounts : held'[b] \in {held[b], NoToken}
  BY DEF Marked, Deleted, Upserted, SwitchEnds, sessions, IInv, TypeOK
<1>4. \A b \in Accounts : record'[b].token \in {record[b].token, NoToken}
  <2>1. CASE Marked(c)
    <3>1. \/ record' = record
          \/ record' = [record EXCEPT ![call[c].account].status = "active"]
      BY <2>1 DEF Marked
    <3> QED BY <3>1 DEF IInv, TypeOK
  <2>2. CASE Deleted(c)
    BY <2>2 DEF Deleted, Absent, IInv, TypeOK
  <2>3. CASE Upserted(c) \/ SwitchEnds(c)
    BY <2>3 DEF Upserted, SwitchEnds
  <2> QED BY <2>1, <2>2, <2>3
<1>5. HeldIsHonoured'
  BY <1>1, <1>3, HeldStays
<1>6. \A b \in Accounts : /\ Has(b, held'[b].id) /\ Has(b, stored'[b].id)
                          /\ Has(b, record'[b].token.id)
  BY <1>1, <1>3, <1>4, HasOwn
<1> QED BY <1>1, <1>2, <1>5, <1>6, Stores

LEMMA RequestTokens ==
    ASSUME IInv, TokenInv, NEW c \in Callers,
           Ensure(c) \/ FindToken(c) \/ Restored(c) \/ Sent(c)
    PROVE  TokenInv'
<1> DEFINE a == call[c].account
<1>1. /\ a \in Accounts /\ call[c] \in Call /\ Has(a, call[c].token.id)
      /\ call[c].op = "request" /\ "request" \in scenario
  BY CallsOwn DEF Ensure, FindToken, Restored, Sent, TokenInv, RequestsOnly, Requesting
<1>2. ASSUME NEW p \in Places, NEW token, Has(a, token.id), NEW n,
             Goes(c, [call[c] EXCEPT !.at = p, !.token = token, !.attempt = n])
      PROVE  CallsFine
  <2> DEFINE k == [call[c] EXCEPT !.at = p, !.token = token, !.attempt = n]
  <2>1. k.account = a /\ k.token = token /\ k.op = "request" /\ Goes(c, k)
    BY <1>1, <1>2 DEF Call
  <2> HIDE DEF k
  <2>2. Fine(k)
    BY <1>1, <1>2, <2>1 DEF Fine
  <2> QED BY <2>1, <2>2, GoesFine
<1>3. ASSUME NEW k, k.account = a, k.token = call[c].token, k.op = "request", Goes(c, k)
      PROVE  CallsFine
  BY <1>1, <1>3, GoesFine DEF Fine
<1>4. CASE Ensure(c) \/ FindToken(c)
  <2>1. UNCHANGED <<scenario, clock, broker, held, stored, record>>
    BY <1>4 DEF Ensure, FindToken, sessions
  <2>2. CallsFine
    <3>1. CASE \E p \in {"joined", "finding"} : Goes(c, [call[c] EXCEPT !.at = p])
      <4>1. PICK p \in {"joined", "finding"} : Goes(c, [call[c] EXCEPT !.at = p])
        BY <3>1
      <4>2. /\ [call[c] EXCEPT !.at = p].account = a
            /\ [call[c] EXCEPT !.at = p].token = call[c].token
            /\ [call[c] EXCEPT !.at = p].op = "request"
        BY <1>1 DEF Call
      <4> QED BY <1>3, <4>1, <4>2
    <3>2. CASE Goes(c, [call[c] EXCEPT !.at = "sending", !.token = held[a], !.attempt = 1])
      BY <1>1, <1>2, <3>2, HasOwn DEF Places
    <3>3. CASE Goes(c, [call[c] EXCEPT !.at = "found", !.token = stored[a]])
      <4> DEFINE k == [call[c] EXCEPT !.at = "found", !.token = stored[a]]
      <4>1. k.account = a /\ k.token = stored[a] /\ k.op = "request" /\ Goes(c, k)
        BY <1>1, <3>3 DEF Call
      <4> HIDE DEF k
      <4> QED BY <1>1, <4>1, HasOwn, GoesFine DEF Fine
    <3> QED BY <1>4, <3>1, <3>2, <3>3 DEF Ensure, FindToken
  <2> QED BY <2>1, <2>2, OnlyCalls
<1>5. CASE Restored(c)
  <2>1. UNCHANGED <<scenario, broker, stored, record>>
    BY <1>5 DEF Restored
  <2>2. CallsFine
    <3>1. CASE Goes(c, [call[c] EXCEPT !.at = "sending", !.attempt = 1])
      <4> DEFINE k == [call[c] EXCEPT !.at = "sending", !.attempt = 1]
      <4>1. k.account = a /\ k.token = call[c].token /\ k.op = "request" /\ Goes(c, k)
        BY <1>1, <3>1 DEF Call
      <4> HIDE DEF k
      <4> QED BY <1>3, <4>1
    <3>2. CASE Goes(c, Idle)
      BY <3>2, FineIdle, GoesFine
    <3> QED BY <1>5, <3>1, <3>2 DEF Restored
  <2>3. \A b \in Accounts : Has(b, held'[b].id)
    <3>1. held' \in {Set(held, c, call[c].token), Set(held, c, NoToken)}
      BY <1>5 DEF Restored
    <3>2. \A b \in Accounts : \/ held'[b] = held[b] \/ held'[b] = NoToken
                              \/ b = a /\ held'[b] = call[c].token
      BY <3>1 DEF Set, IInv, TypeOK
    <3> QED BY <1>1, <3>2, HasOwn
  <2>4. HeldIsHonoured'
    BY <1>1, <2>1 DEF HeldIsHonoured
  <2> QED BY <2>1, <2>2, <2>3, <2>4, HasOwn, Stores
<1>6. CASE Sent(c)
  <2>1. UNCHANGED <<scenario, clock, broker, held, stored, record>>
    BY <1>6 DEF Sent
  <2>2. CallsFine
    <3> DEFINE k == [call[c] EXCEPT !.attempt = @ + 1]
               r == [call[c] EXCEPT !.retried = TRUE]
    <3>1. /\ k.account = a /\ k.token = call[c].token /\ k.op = "request"
          /\ r.account = a /\ r.token = call[c].token /\ r.op = "request" /\ r \in Call
      BY <1>1 DEF Call
    <3>2. Returns(c) \/ Goes(c, k) \/ Refreshes(c, r)
      BY <1>6 DEF Sent
    <3> HIDE DEF k, r
    <3>3. Fine(r)
      BY <1>1, <3>1 DEF Fine
    <3> QED BY <1>1, <1>3, <3>1, <3>2, <3>3, ReturnsFine, RefreshesFine
  <2> QED BY <2>1, <2>2, OnlyCalls
<1> QED BY <1>4, <1>5, <1>6

(* RenewToken kills the token it is given: no other account has it, unless it
   is the environment's. *)
LEMMA RenewTokens ==
    ASSUME IInv, TokenInv, NEW c \in Callers, RenewAnswered(c)
    PROVE  TokenInv'
<1> DEFINE a == call[c].account
           new == Issued
<1>1. /\ a \in Accounts /\ call[c] \in Call /\ Has(a, call[c].token.id)
      /\ call[c].at \in Carrying
  BY CallsOwn DEF RenewAnswered, Carrying
<1>2. UNCHANGED <<scenario, clock, stored, record>>
  BY DEF RenewAnswered
<1>3. CASE UNCHANGED broker /\ RenewalFails(c)
  <2>1. CallsFine /\ \A b \in Accounts : held'[b] \in {held[b], NoToken}
    BY <1>1, <1>3, FailsTokens
  <2>2. HeldIsHonoured'
    BY <1>2, <1>3, <2>1, HeldStays
  <2>3. \A b \in Accounts : /\ Has(b, held'[b].id) /\ Has(b, stored'[b].id)
                            /\ Has(b, record'[b].token.id)
    BY <1>2, <2>1, HasOwn
  <2> QED BY <1>2, <1>3, <2>1, <2>2, <2>3, Stores
<1>4. CASE /\ Honoured(call[c].token)
           /\ broker' = [issued |-> new.id,
                         honoured |-> (broker.honoured \ {call[c].token.id}) \cup {new.id}]
           /\ \/ /\ held' = Set(held, c, new)
                 /\ Goes(c, [call[c] EXCEPT !.at = "renewSaving", !.token = new])
              \/ RenewalFails(c)
  <2>1. /\ new.id = broker.issued + 1 /\ new.until = clock + TTL /\ broker.issued \in Nat
        /\ broker'.issued = broker.issued + 1
        /\ broker'.honoured = (broker.honoured \ {call[c].token.id}) \cup {new.id}
    BY <1>4 DEF Issued, IInv, TypeOK
  <2> HIDE DEF new
  <2>2. \A b \in Accounts : \/ b # a /\ held'[b] = held[b]
                            \/ b = a /\ held'[b] \in {new, NoToken}
    BY <1>1, <1>4 DEF RenewalFails, Set, IInv, TypeOK
  <2>3. \A d \in Callers : \/ Fine(call'[d])
                           \/ /\ d = c /\ call'[d].account = a /\ call'[d].token = new
                              /\ call'[d].at = "renewSaving" /\ call'[d].op = call[c].op
    <3>1. CASE RenewalFails(c)
      BY <1>1, <3>1, FailsTokens DEF CallsFine
    <3>2. CASE Goes(c, [call[c] EXCEPT !.at = "renewSaving", !.token = new])
      BY <1>1, <3>2, FineNow DEF Goes, Call, IInv, TypeOK
    <3> QED BY <1>4, <3>1, <3>2
  <2>4. ASSUME NEW b \in Accounts, NEW i \in Tokens(b)' PROVE Has(b, i) \/ Fresh(b, i, a)
    <3>1. new.id = broker'.issued
      BY <2>1
    <3>2. CASE \E d \in Callers : call'[d].account = b /\ call'[d].token.id = i
      BY <2>1, <2>3, <3>1, <3>2 DEF Fine, Fresh
    <3>3. CASE i \in {held'[b].id, stored'[b].id, record'[b].token.id}
      BY <1>2, <2>1, <2>2, <3>1, <3>3, HasOwn DEF Fresh
    <3> QED BY <3>2, <3>3 DEF Tokens
  <2>5. \A d \in Callers : /\ call'[d].at \in Requesting => call'[d].op = "request"
                           /\ call'[d].op = "request" => "request" \in scenario
    BY <1>1, <2>3, FineNow DEF Fine, Requesting
  <2>6. NoToken.id \notin broker'.honoured
    BY <2>1 DEF NoToken, TokenInv, TokensWereIssued
  <2>7. TokensAreOwn' /\ TokensWereIssued' /\ RequestsOnly'
    <3>1. broker'.issued \in Nat /\ broker'.issued >= broker.issued
      BY <2>1
    <3> QED BY <1>2, <2>4, <2>5, <2>6, <3>1, TokensMove
  <2>8. HeldIsHonoured'
    <3> SUFFICES ASSUME "request" \notin scenario, NEW b \in Accounts, Valid(held[b])', ~Shared(b)'
                 PROVE  held'[b].id \in broker'.honoured
      BY <1>2 DEF HeldIsHonoured
    <3>1. CASE b = a
      <4>1. held'[b] = new
        BY <2>2, <3>1 DEF Valid, NoToken
      <4> QED BY <2>1, <4>1
    <3>2. CASE b # a
      <4>1. held'[b] = held[b] /\ Valid(held[b]) /\ ~Shared(b)
        BY <1>2, <2>2, <3>2 DEF Valid, Shared, NoToken, EnvToken
      <4>2. held[b].id \in broker.honoured
        BY <4>1 DEF TokenInv, HeldIsHonoured
      <4>3. held[b].id # EnvToken.id /\ held[b].id # NoToken.id
        BY <1>1, <3>2, <4>1, <4>2 DEF Shared, TokenInv, TokensWereIssued
      <4>4. held[b].id # call[c].token.id
        <5>1. held[b].id \in Tokens(b)
          BY DEF Tokens
        <5>2. held[b].id \notin Common
          BY <4>3 DEF Common
        <5>3. held[b].id \notin Tokens(a)
          BY <1>1, <3>2, <5>1, <5>2 DEF TokenInv, TokensAreOwn
        <5> QED BY <1>1, <5>2, <5>3 DEF Has
      <4> QED BY <2>1, <4>1, <4>2, <4>4
    <3> QED BY <3>1, <3>2
  <2> QED BY <2>7, <2>8 DEF TokenInv
<1> QED BY <1>3, <1>4 DEF RenewAnswered

LEMMA ContinueTokens ==
    ASSUME IInv, TokenInv, NEW c \in Callers, Continue(c)
    PROVE  TokenInv'
BY LoginTokens, RenewTokens, SavedTokens, RecordTokens, RequestTokens DEF Continue

LEMMA ActivatesFine ==
    ASSUME IInv, TokenInv, NEW c \in Callers, NEW k \in Call, Fine(k), k.account \in Accounts,
           Activates(c, k)
    PROVE  CallsFine
BY HasOwn, AuthenticatesFine DEF Activates, Carrying

(* A call begins with no token of its own. *)
LEMMA BeginTokens ==
    ASSUME IInv, TokenInv, NEW c \in Calls, Begin(c)
    PROVE  TokenInv'
<1>1. c \in Callers
  BY DEF Callers
<1>2. UNCHANGED <<scenario, clock, broker, held, stored, record>>
  BY DEF Begin, Activate, Disconnect, Remove, SwitchToLive, Select, Request, SwitchToPaper,
     Bootstrap, sessions
<1>4. ASSUME NEW k \in Call, Fine(k), k.account \in Accounts,
             \/ Goes(c, k) \/ Activates(c, k) \/ Refreshes(c, k)
             \/ Authenticates(c, k, "login", EnvToken)
             \/ Goes(c, [k EXCEPT !.at = "upserting"])
      PROVE  CallsFine
  <2>1. Has(k.account, EnvToken.id)
    BY DEF Has, Common
  <2>2. [k EXCEPT !.at = "upserting"].account = k.account /\ [k EXCEPT !.at = "upserting"].op = k.op
        /\ [k EXCEPT !.at = "upserting"].token = k.token /\ [k EXCEPT !.at = "upserting"].at = "upserting"
    BY DEF Call
  <2>3. Fine([k EXCEPT !.at = "upserting"])
    BY <1>4, <2>2 DEF Fine, Requesting
  <2> QED BY <1>1, <1>4, <2>1, <2>3, GoesFine, ActivatesFine, RefreshesFine, AuthenticatesFine
          DEF Carrying
<1>5. selected \in Accounts \cup {NoAccount}
  BY DEF IInv, TypeOK
<1>6. CallsFine
  <2>1. ASSUME NEW a \in Accounts, Activate(c, a) PROVE CallsFine
    <3> DEFINE k == [Idle EXCEPT !.op = "activate", !.account = a]
    <3>1. k \in Call /\ Fine(k) /\ k.account = a
      BY Constants, HasOwn DEF Idle, Call, Fine, Ops, Requesting
    <3>2. Activates(c, k)
      BY <2>1 DEF Activate
    <3> HIDE DEF k
    <3> QED BY <1>4, <3>1, <3>2
  <2>2. ASSUME NEW a \in Accounts, Disconnect(c, a) PROVE CallsFine
    <3> DEFINE k == [Idle EXCEPT !.op = "disconnect", !.account = a, !.at = "loggingOut"]
    <3>1. k \in Call /\ Fine(k) /\ k.account = a
      BY Constants, HasOwn DEF Idle, Call, Fine, Ops, Places, Requesting
    <3>2. Goes(c, k)
      BY <2>2 DEF Disconnect
    <3> HIDE DEF k
    <3> QED BY <1>4, <3>1, <3>2
  <2>3. ASSUME NEW a \in Accounts, Remove(c, a) PROVE CallsFine
    <3>1. PICK p \in {"loggingOut", "deleting"} :
            Goes(c, [Idle EXCEPT !.op = "remove", !.account = a, !.at = p])
      BY <2>3 DEF Remove
    <3> DEFINE k == [Idle EXCEPT !.op = "remove", !.account = a, !.at = p]
    <3>2. k \in Call /\ Fine(k) /\ k.account = a
      BY Constants, HasOwn DEF Idle, Call, Fine, Ops, Places, Requesting
    <3>3. Goes(c, k)
      BY <3>1
    <3> HIDE DEF k
    <3> QED BY <1>4, <3>2, <3>3
  <2>4. ASSUME NEW a \in Accounts, SwitchToLive(c, a) PROVE CallsFine
    <3> DEFINE k == [Idle EXCEPT !.op = "switch", !.account = a, !.previous = selected]
    <3>1. k \in Call /\ Fine(k) /\ k.account = a
      BY <1>5, Constants, HasOwn DEF Idle, Call, Fine, Ops, Requesting
    <3>2. Activates(c, k) \/ Goes(c, [k EXCEPT !.at = "upserting"])
      BY <2>4 DEF SwitchToLive, Reconnects
    <3> HIDE DEF k
    <3> QED BY <1>4, <3>1, <3>2
  <2>5. ASSUME NEW a \in Accounts, Select(c, a) PROVE CallsFine
    <3> DEFINE k == [Idle EXCEPT !.op = "select", !.account = a]
    <3>1. k \in Call /\ Fine(k) /\ k.account = a
      BY Constants, HasOwn DEF Idle, Call, Fine, Ops, Requesting
    <3>2. Activates(c, k) \/ Goes(c, [k EXCEPT !.at = "upserting"])
      BY <2>5 DEF Select, Reconnects
    <3> HIDE DEF k
    <3> QED BY <1>4, <3>1, <3>2
  <2>6. ASSUME NEW a \in Accounts, NEW entry \in BOOLEAN, Request(c, a, entry) PROVE CallsFine
    <3> DEFINE k == [Idle EXCEPT !.op = "request", !.account = a, !.at = "ensuring"]
    <3>1. "request" \in scenario /\ Goes(c, k)
      BY <2>6 DEF Request, Starts
    <3>2. k \in Call /\ Fine(k) /\ k.account = a
      BY <3>1, Constants, HasOwn DEF Idle, Call, Fine, Ops, Places, Requesting
    <3> HIDE DEF k
    <3> QED BY <1>4, <3>1, <3>2
  <2>7. CASE SwitchToPaper(c)
    <3> DEFINE k == [Idle EXCEPT !.op = "switch", !.previous = selected, !.at = "upserting"]
    <3>1. Fine(k)
      BY Constants DEF Idle, Fine, Requesting
    <3>2. Goes(c, k)
      BY <2>7 DEF SwitchToPaper
    <3> HIDE DEF k
    <3> QED BY <1>1, <3>1, <3>2, GoesFine
  <2>8. CASE Bootstrap(c)
    <3> DEFINE k == [Idle EXCEPT !.op = "bootstrap", !.account = selected]
    <3>1. selected \in Accounts
      BY <2>8 DEF Bootstrap, IInv, TypeOK
    <3>2. k \in Call /\ Fine(k) /\ k.account = selected
      BY <3>1, Constants, HasOwn DEF Idle, Call, Fine, Ops, Requesting
    <3>3. Refreshes(c, k) \/ Authenticates(c, k, "login", EnvToken)
      BY <2>8 DEF Bootstrap
    <3> HIDE DEF k
    <3> QED BY <1>4, <3>1, <3>2, <3>3
  <2> QED BY <2>1, <2>2, <2>3, <2>4, <2>5, <2>6, <2>7, <2>8 DEF Begin
<1> QED BY <1>2, <1>6, OnlyCalls

LEMMA OtherTokens ==
    ASSUME IInv, TokenInv,
           Renew \/ Tick \/ Arm \/ Crash \/ Shutdown \/ \E a \in Accounts : AddAccount(a)
    PROVE  TokenInv'
<1>1. CASE Renew
  <2>1. UNCHANGED <<scenario, clock, broker, held, stored, record>>
    BY <1>1 DEF Renew
  <2>2. ASSUME NEW d \in Callers PROVE Fine(call'[d])
    <3>1. CASE d \in Accounts /\ Renews(d)
      <4> DEFINE k == [Idle EXCEPT !.op = "renew", !.account = d, !.token = held[d],
                                   !.at = IF pending[d] = NoCall THEN "renewing" ELSE "joined"]
      <4>1. call'[d] = k
        BY <1>1, <3>1 DEF Renew, IInv, TypeOK
      <4>2. Fine(k)
        BY <3>1, HasOwn DEF Idle, Fine, Requesting
      <4> QED BY <4>1, <4>2
    <3>2. CASE ~(d \in Accounts /\ Renews(d))
      BY <1>1, <3>2, FineNow DEF Renew, IInv, TypeOK
    <3> QED BY <3>1, <3>2
  <2> QED BY <2>1, <2>2, OnlyCalls DEF CallsFine
<1>2. CASE Tick
  <2>1. UNCHANGED <<scenario, broker, held, stored, record, call>> /\ clock' = clock + 1
    BY <1>2 DEF Tick, sessions
  <2>2. CallsFine
    BY <2>1, FineNow DEF CallsFine
  <2>3. HeldIsHonoured'
    <3>1. \A a \in Accounts : Valid(held[a])' => Valid(held[a])
      BY <2>1 DEF Valid, NoToken, IInv, TypeOK, Token
    <3> QED BY <2>1, <3>1 DEF HeldIsHonoured, TokenInv, Shared, EnvToken
  <2> QED BY <2>1, <2>2, <2>3, HasOwn, Stores
<1>3. CASE Arm
  <2>1. UNCHANGED <<scenario, clock, broker, held, stored, record, call>>
    BY <1>3 DEF Arm, sessions
  <2> QED BY <2>1, FineNow, OnlyCalls DEF CallsFine
<1>4. CASE Crash \/ Shutdown
  <2>1. /\ UNCHANGED <<scenario, clock, broker, record>> /\ MemoryIsLost
        /\ \A a \in Accounts : stored'[a] \in {stored[a], NoToken}
    BY <1>4 DEF Crash, Shutdown
  <2>2. CallsFine
    BY <2>1, FineIdle DEF CallsFine, MemoryIsLost, IInv, TypeOK
  <2>3. \A a \in Accounts : held'[a] = NoToken
    BY <2>1 DEF MemoryIsLost
  <2>4. HeldIsHonoured'
    BY <2>3 DEF HeldIsHonoured, Valid, NoToken
  <2>5. \A a \in Accounts : /\ Has(a, held'[a].id) /\ Has(a, stored'[a].id)
                            /\ Has(a, record'[a].token.id)
    BY <2>1, <2>3, HasOwn
  <2> QED BY <2>1, <2>2, <2>4, <2>5, Stores
<1>5. ASSUME NEW a \in Accounts, AddAccount(a)
      PROVE  TokenInv'
  <2>1. /\ UNCHANGED <<scenario, clock, held, stored, call>>
        /\ record' = [record EXCEPT ![a] = [status |-> "saved", token |-> Issued]]
        /\ broker'.issued = broker.issued + 1 /\ broker.issued \in Nat
        /\ broker'.honoured = broker.honoured \cup {broker.issued + 1}
        /\ Issued.id = broker.issued + 1
    BY <1>5 DEF AddAccount, sessions, IInv, TypeOK, Issued
  <2>2. ASSUME NEW b \in Accounts, NEW i \in Tokens(b)' PROVE Has(b, i) \/ Fresh(b, i, a)
    <3>1. CASE i \in {held'[b].id, stored'[b].id} \/ \E d \in Callers : call'[d].account = b /\ call'[d].token.id = i
      BY <2>1, <3>1 DEF Has, Tokens
    <3>2. CASE i = record'[b].token.id
      <4>1. record'[b] = record[b] \/ (b = a /\ record'[b] = [status |-> "saved", token |-> Issued])
        BY <2>1 DEF IInv, TypeOK
      <4> QED BY <2>1, <3>2, <4>1, HasOwn DEF Fresh
    <3> QED BY <3>1, <3>2 DEF Tokens
  <2>3. NoToken.id \notin broker'.honoured
    BY <2>1 DEF NoToken, TokenInv, TokensWereIssued
  <2>4. TokensAreOwn' /\ TokensWereIssued' /\ RequestsOnly'
    <3>1. broker'.issued \in Nat /\ broker'.issued >= broker.issued
      BY <2>1
    <3>2. \A d \in Callers : /\ call'[d].at \in Requesting => call'[d].op = "request"
                             /\ call'[d].op = "request" => "request" \in scenario
      BY <2>1 DEF TokenInv, RequestsOnly
    <3> QED BY <2>1, <2>2, <2>3, <3>1, <3>2, TokensMove
  <2>5. HeldIsHonoured'
    BY <2>1, HeldStays
  <2> QED BY <2>4, <2>5 DEF TokenInv
<1> QED BY <1>1, <1>2, <1>3, <1>4, <1>5

LEMMA TokensAtFirst ==
    ASSUME Init
    PROVE  TokenInv
<1>1. PICK a \in Accounts \cup {NoAccount} :
        /\ held = [b \in Accounts |-> IF b = a THEN EnvToken ELSE NoToken]
        /\ stored = held
        /\ record = [b \in Accounts |-> IF b = a THEN [status |-> "active", token |-> EnvToken]
                                                ELSE Absent]
  BY BrokerSessionAssumption DEF Init, BrokerSessionAssumption
<1>2. /\ call = [c \in Callers |-> Idle] /\ broker.issued = 1 /\ broker.honoured = {1}
  BY DEF Init, Callers
<1>3. \A b \in Accounts : Tokens(b) \subseteq Common
  BY <1>1, <1>2, Constants DEF Tokens, Common, Absent, EnvToken, NoToken
<1>4. TokensAreOwn
  BY <1>3 DEF TokensAreOwn
<1>5. TokensWereIssued
  BY <1>2, <1>3 DEF TokensWereIssued, Common, EnvToken, NoToken
<1>6. RequestsOnly
  BY <1>2 DEF RequestsOnly, Idle, Requesting
<1>7. HeldIsHonoured
  BY <1>1, <1>2 DEF HeldIsHonoured, Valid, NoToken, EnvToken
<1> QED BY <1>4, <1>5, <1>6, <1>7 DEF TokenInv

(* Whose each token is, on top of the single flight. *)
THEOREM TokensInductive == Spec => []TokenInv
<1>1. Init => TokenInv
  BY TokensAtFirst
<1>2. IInv /\ TokenInv /\ [Next]_vars => TokenInv'
  <2>1. ASSUME IInv, TokenInv, UNCHANGED vars PROVE TokenInv'
    BY <2>1, FineNow, OnlyCalls DEF vars, sessions, CallsFine
  <2> QED BY <2>1, BeginTokens, ContinueTokens, OtherTokens DEF Next, Callers
<1> QED BY <1>1, <1>2, Inductive, PTL DEF Spec

(* A session in memory is one the broker takes until it expires: no renewal, lost
   answer, login or logout leaves a token there that RenewToken has killed, unless
   several accounts were logged in with the token of the environment. *)
THEOREM SessionsAreGood == Spec => []HeldIsHonoured
<1>1. TokenInv => HeldIsHonoured
  BY DEF TokenInv
<1> QED BY <1>1, TokensInductive, PTL
=============================================================================
