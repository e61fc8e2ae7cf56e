------------------------------ MODULE Requests ------------------------------
(***************************************************************************)
(* How a request is authorized: the two servers of the provider, each one  *)
(* thread that serves a request after the other, and the calls the         *)
(* authentication plug-in makes to oVirt engine's single sign-on service   *)
(* and API while the engine's sessions come and go.                        *)
(*                                                                         *)
(* What a Neutron request does once it may run is Topology and             *)
(* SecurityGroups; here it is one step with a status code.                 *)
(***************************************************************************)
CONSTANTS
  Tokens,  \* tokens of the single sign-on service, issued or not
  Magic,   \* MAGIC_TOKEN of the static plug-ins
  None     \* no request, no token yet, no answer yet

Servers == {"keystone", "neutron"}

\* AuthorizationByUserName, ByGroup and ByRole; MagicTokenPlugin, NoAuthPlugin.
SsoPlugins == {"name", "group", "role"}
StaticPlugins == {"magic", "none"}

\* Keystone creates a token for a password or checks a given one; a Neutron
\* request is checked by its X-Auth-Token header.
Ops == {"create", "check", "neutron"}
OpsOf(s) == IF s = "neutron" THEN {"neutron"} ELSE {"create", "check"}

\* The calls to the engine, and the other places a request can be in.
SsoCalls == {"token", "profiles", "info"}
Calls == SsoCalls \cup {"users"}
Places == Calls \cup {"route", "create", "validate", "run"}

\* What the engine says when it answers a call.
Replies == {"issued", "profiles", "ended", "denied", "granted", "missing", "found"}

Requests ==
  [op : Ops, token : Tokens \cup {Magic, None}, at : Places, reply : Replies \cup {None}]

\* BaseHandler._handle_request.  A request that was dismissed needed or reached
\* no check of its token, one that ran passed it, and the others are answered
\* with the status code of their exception: 401, 403, 504, 502, and 400 or 500.
Outcomes ==
  {"dismissed", "ran", "Unauthorized", "Forbidden", "Timeout", "BadGateway", "error"}

Answers == [outcome : Outcomes, seen : BOOLEAN, doubt : BOOLEAN]

ASSUME TokenAssumption ==
  /\ Magic \notin Tokens
  /\ None \notin Tokens \cup {Magic} \cup Replies
  /\ None \notin Requests \cup Answers

VARIABLES
  plugin,    \* auth.core.plugin, loaded once
  session,   \* of the engine: what became of each token
  entitled,  \* of the engine: tokens of users with the name, group or role
  req,       \* the request a server is serving
  answer,    \* what a server answered last, until it receives a request, with
             \* what seen and doubt were
  seen,      \* history: since the server received the request and knows its
             \* token, the token was good at one instant,
  doubt      \* and was not good at one

vars == <<plugin, session, entitled, req, answer, seen, doubt>>
engine == <<session, entitled>>

\* What the operator of each plug-in was promised.
Good(token) ==
  CASE plugin = "none" -> TRUE
    [] plugin = "magic" -> token = Magic
    [] OTHER -> token \in entitled /\ session[token] = "active"

-----------------------------------------------------------------------------
(* What the provider does *)

\* failed says that a call to the engine failed.
Answer(s, outcome, failed) ==
  /\ req' = [req EXCEPT ![s] = None]
  /\ answer' = [answer EXCEPT ![s] =
       [outcome |-> outcome, seen |-> seen[s], doubt |-> doubt[s] \/ failed]]
  /\ UNCHANGED <<plugin, engine>>

Move(s, row) ==
  /\ req' = [req EXCEPT ![s] = row]
  /\ UNCHANGED <<plugin, engine, answer>>

Goto(s, place) == Move(s, [req[s] EXCEPT !.at = place, !.reply = None])

\* Headers and body have been read.
Receive(s, op, token) ==
  /\ req[s] = None
  /\ op \in OpsOf(s)
  /\ token # None <=> op # "create"
  /\ req' = [req EXCEPT ![s] =
       [op |-> op, token |-> token, at |-> "route", reply |-> None]]
  /\ answer' = [answer EXCEPT ![s] = None]
  /\ UNCHANGED <<plugin, engine>>

\* A path nobody handles or a method it does not have; Keystone's requests that
\* need no token, and those it cannot parse.  A Neutron body is parsed later.
Dismiss(s) ==
  /\ req[s] # None
  /\ req[s].at = "route"
  /\ Answer(s, "dismissed", FALSE)

\* Fault: the token of the body is handed back as it is.
Dispatch_Echo(s) ==
  /\ req[s] # None
  /\ req[s].at = "route"
  /\ Goto(s, CASE req[s].op = "create" -> "create"
               [] req[s].op = "check" -> "run"
               [] OTHER -> "validate")

Dispatch(s) ==
  /\ req[s] # None
  /\ req[s].at = "route"
  /\ Goto(s, IF req[s].op = "create" THEN "create" ELSE "validate")

\* Fault: the static token is not handed on.
CreateToken_Dropped(s) ==
  /\ req[s] # None
  /\ req[s].at = "create"
  /\ Goto(s, IF plugin \in StaticPlugins THEN "validate" ELSE "token")

CreateToken(s) ==
  /\ req[s] # None
  /\ req[s].at = "create"
  /\ IF plugin \in StaticPlugins
     THEN Move(s, [req[s] EXCEPT !.at = "validate", !.token = Magic])
     ELSE Goto(s, "token")

\* Fault: both static plug-ins look at the token.
Accepts_Strict(token) == token = Magic

\* validate_token of the static plug-ins.
Accepts(token) == plugin = "magic" => token = Magic

ValidateToken(s) ==
  /\ req[s] # None
  /\ req[s].at = "validate"
  /\ CASE plugin = "role" -> Goto(s, "profiles")
       [] plugin \in {"name", "group"} -> Goto(s, "info")
       [] OTHER -> IF Accepts(req[s].token) THEN Goto(s, "run")
                   ELSE Answer(s, "Forbidden", FALSE)

\* What follows from the engine's answer.  _http_get subscripts data.values(),
\* so that a user who is found ends the request.
Proceed(s) ==
  /\ req[s] # None
  /\ \/ req[s].reply = "issued" /\ Goto(s, "validate")
     \/ req[s].reply = "profiles" /\ Goto(s, "info")
     \/ req[s].reply = "ended" /\ Answer(s, "Unauthorized", FALSE)
     \/ /\ req[s].reply \in {"denied", "granted"}
        /\ CASE plugin = "role" -> Goto(s, "users")
             [] req[s].reply = "granted" -> Goto(s, "run")
             [] OTHER -> Answer(s, "Forbidden", FALSE)
     \/ req[s].reply = "missing" /\ Answer(s, "Forbidden", TRUE)
     \/ req[s].reply = "found" /\ Answer(s, "error", FALSE)

\* post_tokens' response, or whatever the handler of the Neutron path and
\* method answers.
Run(s) ==
  /\ req[s] # None
  /\ req[s].at = "run"
  /\ Answer(s, "ran", FALSE)

\* Fault: the calls to the engine's API have no time-out.
TimeOut_Sso(s) ==
  /\ req[s] # None
  /\ req[s].at \in SsoCalls
  /\ Answer(s, "Timeout", TRUE)

\* A call that takes too long, or whose answer is lost: the engine may have done
\* what it was asked for.
TimeOut(s) ==
  /\ req[s] # None
  /\ req[s].at \in Calls
  /\ Answer(s, "Timeout", TRUE)

\* Any other failure.  Every error the service describes is Unauthorized, and
\* the engine's API does not say BadGateway.
Failures(call) ==
  IF call \in SsoCalls THEN {"Unauthorized", "BadGateway", "error"} ELSE {"error"}
Fail(s) ==
  /\ req[s] # None
  /\ req[s].at \in Calls
  /\ req[s].reply = None
  /\ \E outcome \in Failures(req[s].at) : Answer(s, outcome, TRUE)

-----------------------------------------------------------------------------
(* What the engine does (external) *)

Reply(s, reply, token) ==
  /\ req' = [req EXCEPT ![s].reply = reply, ![s].token = token]
  /\ UNCHANGED <<plugin, entitled, answer>>

Verdict(token) ==
  IF token \notin Tokens \/ session[token] # "active" THEN "ended"
  ELSE IF token \in entitled THEN "granted" ELSE "denied"

IssueToken(s, token) ==
  /\ req[s] # None
  /\ req[s].at = "token" /\ req[s].reply = None
  /\ session[token] = "none"
  /\ session' = [session EXCEPT ![token] = "active"]
  /\ Reply(s, "issued", token)

ReplyToCall(s) ==
  /\ req[s] # None
  /\ req[s].at \in {"profiles", "info", "users"} /\ req[s].reply = None
  /\ \E reply \in CASE req[s].at = "profiles" -> {"profiles"}
                    [] req[s].at = "info" -> {Verdict(req[s].token)}
                    [] OTHER -> {"missing", "found"} :
       Reply(s, reply, req[s].token)
  /\ UNCHANGED session

\* Users log in without the provider, log out, and change groups and roles.
ChangeSession(token) ==
  /\ \/ session[token] = "none" /\ session' = [session EXCEPT ![token] = "active"]
     \/ session[token] = "active" /\ session' = [session EXCEPT ![token] = "ended"]
  /\ UNCHANGED <<plugin, entitled, req, answer>>

ChangeEntitlement(token) ==
  /\ entitled' = IF token \in entitled THEN entitled \ {token} ELSE entitled \cup {token}
  /\ UNCHANGED <<plugin, session, req, answer>>

-----------------------------------------------------------------------------
(* The history of the two servers, kept in every step. *)
Known(s) == req[s] # None /\ req[s].token # None
GoodNow(s) == Known(s) /\ Good(req[s].token)
BadNow(s) == Known(s) /\ ~Good(req[s].token)

Observe ==
  /\ seen' = [s \in Servers |-> req'[s] # None /\ (seen[s] \/ GoodNow(s)')]
  /\ doubt' = [s \in Servers |-> req'[s] # None /\ (doubt[s] \/ BadNow(s)')]

Init ==
  /\ plugin \in SsoPlugins \cup StaticPlugins
  /\ session = [token \in Tokens |-> "none"]
  /\ entitled \in SUBSET Tokens
  /\ req = [s \in Servers |-> None]
  /\ answer = [s \in Servers |-> None]
  /\ seen = [s \in Servers |-> FALSE]
  /\ doubt = [s \in Servers |-> FALSE]

Provider(s) ==
  \/ Dismiss(s)
  \/ Dispatch(s)
  \/ CreateToken(s)
  \/ ValidateToken(s)
  \/ Proceed(s)
  \/ Run(s)

Step ==
  \/ \E s \in Servers :
       \/ \E op \in Ops, token \in Tokens \cup {Magic, None} : Receive(s, op, token)
       \/ Provider(s)
       \/ TimeOut(s)
       \/ Fail(s)
       \/ \E token \in Tokens : IssueToken(s, token)
       \/ ReplyToCall(s)
  \/ \E token \in Tokens : ChangeSession(token) \/ ChangeEntitlement(token)

Next == Step /\ Observe

Spec == Init /\ [][Next]_vars

\* A server's thread goes on, and every call to the engine has a time-out
\* (_timeout of OVirtPlugin).  The engine need never answer.
Fairness ==
  \A s \in Servers :
    /\ WF_vars(Provider(s) /\ Observe)
    /\ WF_vars(TimeOut(s) /\ Observe)

FairSpec == Spec /\ Fairness

-----------------------------------------------------------------------------
(* What holds *)

\* Every variable has its type; a request waits for the reply of its own call,
\* and has a token once that token is looked at.
TypeOK ==
  /\ plugin \in SsoPlugins \cup StaticPlugins
  /\ session \in [Tokens -> {"none", "active", "ended"}]
  /\ entitled \subseteq Tokens
  /\ req \in [Servers -> Requests \cup {None}]
  /\ answer \in [Servers -> Answers \cup {None}]
  /\ seen \in [Servers -> BOOLEAN]
  /\ doubt \in [Servers -> BOOLEAN]
  /\ \A s \in Servers : req[s] # None =>
       /\ req[s].op \in OpsOf(s)
       /\ req[s].reply # None => req[s].at \in Calls
       /\ req[s].token = None =>
            /\ req[s].op = "create" /\ req[s].reply = None
            /\ req[s].at \in {"route", "create", "token"}

\* A request is carried out, and a token handed out by Keystone, only if the
\* token was good at one instant since the request was received: active and its
\* user entitled at the same time, whatever the other server, other users and the
\* engine do between the calls.
Authorized ==
  \A s \in Servers : answer[s] # None /\ answer[s].outcome = "ran" => answer[s].seen

Served(s) ==
  answer[s] # None /\ ~answer[s].doubt => answer[s].outcome \in {"dismissed", "ran"}

\* A token that stays good while the engine answers is not refused, nor is its
\* request failed, by the supported plug-ins and the static ones.
GoodTokensServed ==
  plugin # "role" => \A s \in Servers : Served(s)

\* Every request is answered, the engine silent or not: nothing waits for ever,
\* and so the next request, which has no other thread to serve it, is received.
Answered == \A s \in Servers : req[s] # None ~> req[s] = None

=============================================================================
