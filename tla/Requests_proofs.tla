-------------------------- MODULE Requests_proofs --------------------------
(***************************************************************************)
(* Proofs about Requests: types, that a request runs only with a token     *)
(* that was good while the request was served, and that a token that stays *)
(* good is served.  That every request is answered needs fairness and is   *)
(* left to TLC.                                                            *)
(***************************************************************************)
EXTENDS Requests, TLAPS

\* What a request of server s may look like: a call is made only by the plug-in
\* that needs it, a reply is the reply to that call, and the history already
\* has what the engine said, or what let the request run.
RowOK(s, row) ==
  /\ row \in Requests
  /\ row.op \in OpsOf(s)
  /\ row.reply # None => row.at \in Calls
  /\ row.token = None =>
       row.op = "create" /\ row.reply = None /\ row.at \in {"route", "create", "token"}
  /\ row.at \in Calls => plugin \in SsoPlugins
  /\ row.at \in {"profiles", "users"} => plugin = "role"
  /\ row.reply = "found" => row.at = "users"
  /\ row.reply \in {"granted", "denied", "ended"} => row.at = "info"
  /\ row.at = "run" \/ row.reply = "granted" => seen[s]
  /\ row.reply \in {"denied", "ended"} => doubt[s]

RowsOK == \A s \in Servers : req[s] # None => RowOK(s, req[s])

\* The history knows what the token is at present.
HistoryKnows == \A s \in Servers : (GoodNow(s) => seen[s]) /\ (BadNow(s) => doubt[s])

IInv == TypeOK /\ RowsOK /\ HistoryKnows /\ Authorized /\ GoodTokensServed

-----------------------------------------------------------------------------
(* Lemmas *)

LEMMA InitIInv == Init => IInv
PROOF
  BY TokenAssumption
  DEF Init, IInv, TypeOK, RowsOK, HistoryKnows, Authorized, GoodTokensServed, Served,
      GoodNow, BadNow, Known

\* The history only grows while a request is served, and sees the present.
LEMMA HistoryGrows ==
  ASSUME Observe, NEW s \in Servers
  PROVE  /\ req'[s] # None /\ seen[s] => seen'[s]
         /\ req'[s] # None /\ doubt[s] => doubt'[s]
         /\ GoodNow(s)' => seen'[s]
         /\ BadNow(s)' => doubt'[s]
PROOF BY DEF Observe, GoodNow, BadNow, Known

LEMMA HistoryTypes ==
  ASSUME Observe
  PROVE  seen' \in [Servers -> BOOLEAN] /\ doubt' \in [Servers -> BOOLEAN]
PROOF BY DEF Observe

\* A step that gives server s the request row, and no answer or the one it had.
LEMMA RowSet ==
  ASSUME IInv, Observe, NEW s \in Servers, NEW row, RowOK(s, row),
         req' = [req EXCEPT ![s] = row],
         answer' = answer \/ answer' = [answer EXCEPT ![s] = None],
         plugin' = plugin,
         session' \in [Tokens -> {"none", "active", "ended"}],
         entitled' \subseteq Tokens
  PROVE  IInv'
PROOF
<1>1. req' \in [Servers -> Requests \cup {None}]
  BY DEF IInv, TypeOK, RowOK
<1>2. answer' \in [Servers -> Answers \cup {None}]
  BY DEF IInv, TypeOK
<1>3. req'[s] = row /\ row # None /\ \A q \in Servers \ {s} : req'[q] = req[q]
  BY TokenAssumption DEF IInv, TypeOK, RowOK
<1>4. \A q \in Servers : answer'[q] = answer[q] \/ answer'[q] = None
  BY DEF IInv, TypeOK
<1>5. RowsOK'
  <2>1. SUFFICES ASSUME NEW q \in Servers, req'[q] # None
                 PROVE  RowOK(q, req[q])'
    BY DEF RowsOK
  <2>2. (seen[q] => seen'[q]) /\ (doubt[q] => doubt'[q])
    BY <2>1, HistoryGrows
  <2>3. RowOK(q, req'[q])
    BY <1>3, <2>1 DEF IInv, RowsOK
  <2>. QED BY <2>2, <2>3 DEF RowOK
<1>6. HistoryKnows'
  BY HistoryGrows DEF HistoryKnows
<1>7. Authorized' /\ GoodTokensServed'
  BY <1>4 DEF IInv, Authorized, GoodTokensServed, Served
<1>8. TypeOK'
  BY <1>1, <1>2, <1>5, HistoryTypes DEF IInv, TypeOK, RowsOK, RowOK
<1>. QED BY <1>5, <1>6, <1>7, <1>8 DEF IInv

\* A step that answers the request of server s.
LEMMA AnswerSent ==
  ASSUME IInv, Observe, NEW s \in Servers, NEW outcome \in Outcomes, NEW failed \in BOOLEAN,
         Answer(s, outcome, failed),
         outcome = "ran" => seen[s],
         outcome \in {"dismissed", "ran"} \/ doubt[s] \/ failed \/ plugin = "role"
  PROVE  IInv'
PROOF
<1>1. req' \in [Servers -> Requests \cup {None}] /\ req'[s] = None
      /\ \A q \in Servers \ {s} : req'[q] = req[q]
  BY DEF IInv, TypeOK, Answer
<1>2. answer' \in [Servers -> Answers \cup {None}]
      /\ answer'[s] = [outcome |-> outcome, seen |-> seen[s], doubt |-> doubt[s] \/ failed]
      /\ \A q \in Servers \ {s} : answer'[q] = answer[q]
  <2>1. [outcome |-> outcome, seen |-> seen[s], doubt |-> doubt[s] \/ failed] \in Answers
    BY DEF IInv, TypeOK, Answers
  <2>. QED BY <2>1 DEF IInv, TypeOK, Answer
<1>3. plugin' = plugin /\ session' = session /\ entitled' = entitled
  BY DEF Answer, engine
<1>4. RowsOK'
  <2>1. SUFFICES ASSUME NEW q \in Servers, req'[q] # None
                 PROVE  RowOK(q, req[q])'
    BY DEF RowsOK
  <2>2. (seen[q] => seen'[q]) /\ (doubt[q] => doubt'[q])
    BY <2>1, HistoryGrows
  <2>3. RowOK(q, req'[q])
    BY <1>1, <2>1 DEF IInv, RowsOK
  <2>. QED BY <1>3, <2>2, <2>3 DEF RowOK
<1>5. HistoryKnows'
  BY HistoryGrows DEF HistoryKnows
<1>6. Authorized' /\ GoodTokensServed'
  <2>1. (answer'[s].outcome = "ran" => answer'[s].seen)
        /\ (plugin # "role" => Served(s)')
    <3>1. answer'[s].outcome = outcome /\ answer'[s].seen = seen[s]
          /\ answer'[s].doubt = (doubt[s] \/ failed)
      BY <1>2
    <3>. QED BY <3>1 DEF Served
  <2>2. ASSUME NEW q \in Servers \ {s}
        PROVE  (answer'[q] # None /\ answer'[q].outcome = "ran" => answer'[q].seen)
               /\ (plugin # "role" => Served(q)')
    BY <1>2 DEF IInv, Authorized, GoodTokensServed, Served
  <2>. QED BY <1>3, <2>1, <2>2 DEF Authorized, GoodTokensServed
<1>7. TypeOK'
  BY <1>1, <1>2, <1>3, <1>4, HistoryTypes DEF IInv, TypeOK, RowsOK, RowOK
<1>. QED BY <1>4, <1>5, <1>6, <1>7 DEF IInv

\* A step of the engine that concerns no request.
LEMMA EngineChanges ==
  ASSUME IInv, Observe, plugin' = plugin, req' = req, answer' = answer,
         session' \in [Tokens -> {"none", "active", "ended"}],
         entitled' \subseteq Tokens
  PROVE  IInv'
PROOF
<1>1. RowsOK'
  <2>1. SUFFICES ASSUME NEW q \in Servers, req'[q] # None
                 PROVE  RowOK(q, req[q])'
    BY DEF RowsOK
  <2>2. (seen[q] => seen'[q]) /\ (doubt[q] => doubt'[q])
    BY <2>1, HistoryGrows
  <2>3. RowOK(q, req'[q])
    BY <2>1 DEF IInv, RowsOK
  <2>. QED BY <2>2, <2>3 DEF RowOK
<1>2. HistoryKnows'
  BY HistoryGrows DEF HistoryKnows
<1>3. Authorized' /\ GoodTokensServed'
  BY DEF IInv, Authorized, GoodTokensServed, Served
<1>4. TypeOK'
  BY <1>1, HistoryTypes DEF IInv, TypeOK, RowsOK, RowOK
<1>. QED BY <1>1, <1>2, <1>3, <1>4 DEF IInv

\* The row of a request that a server goes on with.
LEMMA RowNow ==
  ASSUME IInv, NEW s \in Servers, req[s] # None
  PROVE  RowOK(s, req[s]) /\ (GoodNow(s) => seen[s]) /\ (BadNow(s) => doubt[s])
PROOF BY DEF IInv, RowsOK, HistoryKnows

\* Going on to another place needs what a row at that place must satisfy.
LEMMA Going ==
  ASSUME IInv, Observe, NEW s \in Servers, req[s] # None, NEW place \in Places, Goto(s, place),
         place \notin {"route", "create", "token"} => req[s].token # None,
         place \in Calls => plugin \in SsoPlugins,
         place \in {"profiles", "users"} => plugin = "role",
         place = "run" => seen[s]
  PROVE  IInv'
PROOF
<1> DEFINE row == [req[s] EXCEPT !.at = place, !.reply = None]
<1>1. RowOK(s, req[s])
  BY RowNow
<1>2. row \in Requests /\ row.op = req[s].op /\ row.token = req[s].token
      /\ row.at = place /\ row.reply = None
  BY <1>1 DEF RowOK, Requests
<1>3. None \notin {"found", "granted", "denied", "ended"}
  BY TokenAssumption DEF Replies
<1>4. RowOK(s, row)
  BY <1>1, <1>2, <1>3 DEF RowOK
<1>5. req' = [req EXCEPT ![s] = row] /\ answer' = answer /\ plugin' = plugin
      /\ session' = session /\ entitled' = entitled
  BY DEF Goto, Move, engine
<1>. QED BY <1>4, <1>5, RowSet DEF IInv, TypeOK

LEMMA ProviderIInv ==
  ASSUME IInv, Observe, NEW s \in Servers, Provider(s)
  PROVE  IInv'
PROOF
<1>0. req[s] # None
  BY DEF Provider, Dismiss, Dispatch, CreateToken, ValidateToken, Proceed, Run
<1>row. RowOK(s, req[s]) /\ (GoodNow(s) => seen[s]) /\ (BadNow(s) => doubt[s])
  BY <1>0, RowNow
<1>plugin. plugin \in SsoPlugins \cup StaticPlugins
  BY DEF IInv, TypeOK
<1>1. CASE Dismiss(s)
  BY <1>1, AnswerSent DEF Dismiss, Outcomes
<1>2. CASE Dispatch(s)
  <2>1. req[s].op # "create" => req[s].token # None
    BY <1>2, <1>row DEF Dispatch, RowOK
  <2>. QED BY <1>0, <1>2, <2>1, Going DEF Dispatch, Places, Calls, SsoCalls
<1>3. CASE CreateToken(s)
  <2>1. CASE plugin \in StaticPlugins
    <3> DEFINE row == [req[s] EXCEPT !.at = "validate", !.token = Magic]
    <3>1. row \in Requests /\ row.op = req[s].op /\ row.at = "validate"
          /\ row.token = Magic /\ row.reply = req[s].reply
      BY <1>row DEF RowOK, Requests, Places
    <3>2. req[s].reply = None
      BY <1>3, <1>row DEF CreateToken, RowOK, Calls, SsoCalls
    <3>3. RowOK(s, row)
      BY <1>row, <3>1, <3>2, TokenAssumption DEF RowOK, Calls, SsoCalls, Replies
    <3>4. req' = [req EXCEPT ![s] = row] /\ answer' = answer /\ plugin' = plugin
          /\ session' = session /\ entitled' = entitled
      BY <1>3, <2>1 DEF CreateToken, Move, engine
    <3>. QED BY <3>3, <3>4, RowSet DEF IInv, TypeOK
  <2>2. CASE plugin \notin StaticPlugins
    BY <1>0, <1>3, <1>row, <1>plugin, <2>2, Going DEF CreateToken, Places, Calls, SsoCalls
  <2>. QED BY <2>1, <2>2
<1>4. CASE ValidateToken(s)
  <2>1. req[s].token # None /\ Known(s)
    BY <1>0, <1>4, <1>row DEF ValidateToken, RowOK, Known
  <2>2. CASE plugin = "role"
    BY <1>0, <1>4, <2>1, <2>2, Going DEF ValidateToken, Places, Calls, SsoCalls, SsoPlugins
  <2>3. CASE plugin \in {"name", "group"}
    BY <1>0, <1>4, <2>1, <2>3, Going DEF ValidateToken, Places, Calls, SsoCalls, SsoPlugins
  <2>4. CASE plugin \in StaticPlugins /\ Accepts(req[s].token)
    <3>1. seen[s]
      BY <1>row, <2>1, <2>4 DEF Accepts, StaticPlugins, GoodNow, Good
    <3>2. Goto(s, "run")
      BY <1>4, <2>4 DEF ValidateToken, StaticPlugins
    <3>. QED BY <1>0, <2>1, <3>1, <3>2, Going DEF Places, Calls, SsoCalls
  <2>5. CASE plugin \in StaticPlugins /\ ~Accepts(req[s].token)
    <3>1. doubt[s]
      BY <1>row, <2>1, <2>5 DEF Accepts, StaticPlugins, BadNow, Good
    <3>2. Answer(s, "Forbidden", FALSE)
      BY <1>4, <2>5 DEF ValidateToken, StaticPlugins
    <3>. QED BY <3>1, <3>2, AnswerSent DEF Outcomes
  <2>. QED BY <1>plugin, <2>2, <2>3, <2>4, <2>5 DEF SsoPlugins
<1>5. CASE Proceed(s)
  <2>0. req[s].reply # None => req[s].token # None /\ plugin \in SsoPlugins
    BY <1>row DEF RowOK
  <2>none. None \notin Replies
    BY TokenAssumption
  <2>1. CASE req[s].reply = "issued" /\ Goto(s, "validate")
    BY <1>0, <2>0, <2>none, <2>1, Going DEF Replies, Places, Calls, SsoCalls
  <2>2. CASE req[s].reply = "profiles" /\ Goto(s, "info")
    BY <1>0, <2>0, <2>none, <2>2, Going DEF Replies, Places, Calls, SsoCalls
  <2>3. CASE req[s].reply = "ended" /\ Answer(s, "Unauthorized", FALSE)
    BY <1>row, <2>3, AnswerSent DEF RowOK, Outcomes
  <2>4. CASE req[s].reply \in {"denied", "granted"} /\ plugin = "role" /\ Goto(s, "users")
    BY <1>0, <2>0, <2>none, <2>4, Going DEF Replies, Places, Calls, SsoCalls
  <2>5. CASE req[s].reply = "granted" /\ Goto(s, "run")
    <3>1. seen[s]
      BY <1>row, <2>5 DEF RowOK
    <3>. QED BY <1>0, <2>0, <2>none, <2>5, <3>1, Going DEF Replies, Places, Calls, SsoCalls
  <2>6. CASE req[s].reply = "denied" /\ Answer(s, "Forbidden", FALSE)
    BY <1>row, <2>6, AnswerSent DEF RowOK, Outcomes
  <2>7. CASE req[s].reply = "missing" /\ Answer(s, "Forbidden", TRUE)
    BY <2>7, AnswerSent DEF Outcomes
  <2>8. CASE req[s].reply = "found" /\ Answer(s, "error", FALSE)
    BY <1>row, <2>8, AnswerSent DEF RowOK, Outcomes
  <2>. QED BY <1>5, <2>1, <2>2, <2>3, <2>4, <2>5, <2>6, <2>7, <2>8 DEF Proceed
<1>6. CASE Run(s)
  BY <1>6, <1>row, AnswerSent DEF Run, RowOK, Outcomes
<1>. QED BY <1>1, <1>2, <1>3, <1>4, <1>5, <1>6 DEF Provider

LEMMA ServerIInv ==
  ASSUME IInv, Observe, NEW s \in Servers
  PROVE  /\ \A op \in Ops, token \in Tokens \cup {Magic, None} : Receive(s, op, token) => IInv'
         /\ TimeOut(s) => IInv'
         /\ Fail(s) => IInv'
         /\ \A token \in Tokens : IssueToken(s, token) => IInv'
         /\ ReplyToCall(s) => IInv'
PROOF
<1>types. /\ session \in [Tokens -> {"none", "active", "ended"}] /\ entitled \subseteq Tokens
          /\ plugin \in SsoPlugins \cup StaticPlugins
  BY DEF IInv, TypeOK
<1>1. ASSUME NEW op \in Ops, NEW token \in Tokens \cup {Magic, None}, Receive(s, op, token)
      PROVE  IInv'
  <2> DEFINE row == [op |-> op, token |-> token, at |-> "route", reply |-> None]
  <2>1. RowOK(s, row)
    BY <1>1, TokenAssumption DEF Receive, RowOK, Requests, Places, Calls, SsoCalls, Replies
  <2>2. req' = [req EXCEPT ![s] = row] /\ answer' = [answer EXCEPT ![s] = None]
        /\ plugin' = plugin /\ session' = session /\ entitled' = entitled
    BY <1>1 DEF Receive, engine
  <2>. QED BY <1>types, <2>1, <2>2, RowSet
<1>2. ASSUME TimeOut(s) PROVE IInv'
  BY <1>2, AnswerSent DEF TimeOut, Outcomes
<1>3. ASSUME Fail(s) PROVE IInv'
  <2>1. PICK outcome \in {"Unauthorized", "BadGateway", "error"} : Answer(s, outcome, TRUE)
    BY <1>3 DEF Fail, Failures
  <2>. QED BY <2>1, AnswerSent DEF Outcomes
<1>4. ASSUME NEW token \in Tokens, IssueToken(s, token) PROVE IInv'
  <2> DEFINE row == [req[s] EXCEPT !.reply = "issued", !.token = token]
  <2>1. req[s] # None /\ req[s].at = "token" /\ RowOK(s, req[s])
    BY <1>4, RowNow DEF IssueToken
  <2>2. row \in Requests /\ row.op = req[s].op /\ row.at = "token"
        /\ row.token = token /\ row.reply = "issued"
    BY <2>1 DEF RowOK, Requests, Replies
  <2>3. RowOK(s, row)
    BY <2>1, <2>2, TokenAssumption DEF RowOK, Calls, SsoCalls
  <2>4. req' = [req EXCEPT ![s] = row] /\ answer' = answer /\ plugin' = plugin
        /\ entitled' = entitled
    BY <1>4 DEF IssueToken, Reply
  <2>5. session' \in [Tokens -> {"none", "active", "ended"}]
    BY <1>4, <1>types DEF IssueToken
  <2>. QED BY <1>types, <2>3, <2>4, <2>5, RowSet
<1>5. ASSUME ReplyToCall(s) PROVE IInv'
  <2>1. req[s] # None /\ req[s].at \in {"profiles", "info", "users"}
        /\ RowOK(s, req[s]) /\ (GoodNow(s) => seen[s]) /\ (BadNow(s) => doubt[s])
    BY <1>5, RowNow DEF ReplyToCall
  <2>2. PICK reply \in Replies :
          /\ Reply(s, reply, req[s].token)
          /\ reply \in {"granted", "denied", "ended"} =>
               req[s].at = "info" /\ reply = Verdict(req[s].token)
          /\ reply = "found" => req[s].at = "users"
    <3>1. CASE req[s].at = "profiles"
      BY <1>5, <3>1 DEF ReplyToCall, Replies
    <3>2. CASE req[s].at = "info"
      <4>1. Verdict(req[s].token) \in {"granted", "denied", "ended"}
        BY DEF Verdict
      <4>2. Reply(s, Verdict(req[s].token), req[s].token)
        BY <1>5, <3>2 DEF ReplyToCall
      <4>. QED BY <3>2, <4>1, <4>2 DEF Replies
    <3>3. CASE req[s].at = "users"
      BY <1>5, <3>3 DEF ReplyToCall, Replies
    <3>. QED BY <2>1, <3>1, <3>2, <3>3
  <2> DEFINE row == [req[s] EXCEPT !.reply = reply, !.token = req[s].token]
  <2>3. row \in Requests /\ row.op = req[s].op /\ row.at = req[s].at
        /\ row.token = req[s].token /\ row.reply = reply
    BY <2>1 DEF RowOK, Requests
  <2>4. req[s].token # None /\ plugin \in SsoPlugins
    BY <2>1 DEF RowOK, Calls, SsoCalls
  <2>5. reply = "granted" => seen[s]
    <3>1. reply = "granted" => Good(req[s].token)
      BY <2>2, <2>4 DEF Verdict, Good, SsoPlugins
    <3>. QED BY <2>1, <2>4, <3>1 DEF GoodNow, Known
  <2>6. reply \in {"denied", "ended"} => doubt[s]
    <3>1. reply \in {"denied", "ended"} => ~Good(req[s].token)
      BY <1>types, <2>2, <2>4 DEF Verdict, Good, SsoPlugins
    <3>. QED BY <2>1, <2>4, <3>1 DEF BadNow, Known
  <2>7. RowOK(s, row)
    BY <2>1, <2>2, <2>3, <2>4, <2>5, <2>6 DEF RowOK, Calls, SsoCalls
  <2>8. req' = [req EXCEPT ![s] = row] /\ answer' = answer /\ plugin' = plugin
        /\ session' = session /\ entitled' = entitled
    BY <1>5, <2>2 DEF ReplyToCall, Reply
  <2>. QED BY <1>types, <2>7, <2>8, RowSet
<1>. QED BY <1>1, <1>2, <1>3, <1>4, <1>5

LEMMA StepIInv == IInv /\ [Next]_vars => IInv'
PROOF
<1>1. ASSUME IInv, Next PROVE IInv'
  <2>1. Observe
    BY <1>1 DEF Next
  <2>2. ASSUME NEW token \in Tokens, ChangeSession(token) PROVE IInv'
    BY <1>1, <2>1, <2>2, EngineChanges DEF ChangeSession, IInv, TypeOK
  <2>3. ASSUME NEW token \in Tokens, ChangeEntitlement(token) PROVE IInv'
    BY <1>1, <2>1, <2>3, EngineChanges DEF ChangeEntitlement, IInv, TypeOK
  <2>. QED BY <1>1, <2>1, <2>2, <2>3, ProviderIInv, ServerIInv DEF Next, Step
<1>2. ASSUME IInv, UNCHANGED vars PROVE IInv'
  BY <1>2 DEF vars, IInv, TypeOK, RowsOK, RowOK, HistoryKnows, Authorized, GoodTokensServed,
     Served, GoodNow, BadNow, Known, Good
<1>. QED BY <1>1, <1>2

LEMMA AlwaysIInv == Spec => []IInv
PROOF BY InitIInv, StepIInv, PTL DEF Spec

-----------------------------------------------------------------------------
(* Theorems *)

\* Every variable has its type, and a request waits only for a reply to its call.
THEOREM TypeCorrect == Spec => []TypeOK
PROOF
<1>1. IInv => TypeOK
  BY DEF IInv
<1>. QED BY <1>1, AlwaysIInv, PTL

\* A request is carried out, and a token handed out, only if the token was good
\* at one instant since the request was received.
THEOREM OnlyAuthorizedRun == Spec => []Authorized
PROOF
<1>1. IInv => Authorized
  BY DEF IInv
<1>. QED BY <1>1, AlwaysIInv, PTL

\* A token that stays good while the engine answers is not refused.
THEOREM GoodAreServed == Spec => []GoodTokensServed
PROOF
<1>1. IInv => GoodTokensServed
  BY DEF IInv
<1>. QED BY <1>1, AlwaysIInv, PTL

=============================================================================
