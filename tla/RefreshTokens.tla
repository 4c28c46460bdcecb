---------------------------- MODULE RefreshTokens -----------------------------
(***************************************************************************)
(* The refresh tokens of one user: login, logout and password reset.       *)
(*                                                                         *)
(* Source: apps/accounts/services.py (TokenBlocklistService,               *)
(* PasswordResetService), tokens.py, serializers.py and views.py.          *)
(*                                                                         *)
(* The password is in PostgreSQL, what is known of tokens in Redis, and    *)
(* every Redis command is a step of its own.  A logout and a reset read    *)
(* the clock at some instant `at` before their command runs.  Time is      *)
(* counted in fractions of a second, since exp and time to live are in     *)
(* whole seconds.                                                          *)
(***************************************************************************)
EXTENDS Integers, Sequences

CONSTANTS
    Requests,       \* web workers serving a request at a time
    Second,         \* instants per second
    Lifetime,       \* REFRESH_TOKEN_LIFETIME, in seconds
    Slack,          \* 3600 in register_issued_token, in seconds
    MaxTokens,      \* bound: tokens issued
    MaxPasswords,   \* bound: passwords set by resets
    MaxTime         \* bound: the last instant

ASSUME TimeAssumption ==
    Second \in Nat \ {0} /\ Lifetime \in Nat \ {0} /\ Slack \in Nat \ {0}
ASSUME BoundAssumption == {MaxTokens, MaxPasswords, MaxTime} \subseteq Nat

VARIABLES
    now,            \* time.time()
    password,       \* the number of the current password, 0 the first; bounds the resets
    token,          \* the tokens issued, by jti
    held,           \* the tokens that reached the user
    registered,     \* the members of user_tokens:<user>, scored by exp
    keyEnds,        \* when that key expires, 0: no key, or no expiry on it
    blocked,        \* when refresh_blocklist:<jti> expires, 0: never set
    revoked,        \* tokens an answered logout or reset has revoked
    req             \* the request each worker is serving

vars == <<now, password, token, held, registered, keyEnds, blocked, revoked, req>>

-------------------------------------------------------------------------------
Jtis == 1 .. MaxTokens

Token   == [exp : Nat]
Request == [pc : {"idle", "login", "renew", "logout", "reset", "scan", "block"},
            at : Nat, todo : SUBSET Jtis, owed : SUBSET Jtis]

Idle      == [pc |-> "idle", at |-> 0, todo |-> {}, owed |-> {}]

Goto(r, pc, at, todo, owed) ==
    req' = [req EXCEPT ![r] = [pc |-> pc, at |-> at, todo |-> todo, owed |-> owed]]
Finish(r) == req' = [req EXCEPT ![r] = Idle]

Live(t)   == now < token[t].exp
Usable(t) == Live(t) /\ now >= blocked[t] \* by CustomTokenRefreshSerializer

(* The instants at which request r may have read the clock.                *)
Since(r) == req[r].at .. now

(* exp is in whole seconds.                                                *)
Expiry == (now \div Second + Lifetime) * Second

(* int(exp - time.time()), not below 0.                                    *)
Ttl_Short(exp, at) == \* mutant: a second less, lest a block outlives its token
    IF at >= exp THEN 0 ELSE (exp - at) \div Second - 1
Ttl(exp, at) ==
    IF at >= exp THEN 0 ELSE (exp - at) \div Second

(* TokenBlocklistService.blocklist: setex, unless nothing is left.         *)
Blocked(t, ttl) ==
    IF ttl <= 0 THEN blocked ELSE [blocked EXCEPT ![t] = now + ttl * Second]

-------------------------------------------------------------------------------
(* Login.                                                                  *)
Authenticate(r) ==
    /\ req[r].pc = "idle"
    /\ Goto(r, "login", 0, {}, {})
    /\ UNCHANGED <<now, password, token, held, registered, keyEnds, blocked, revoked>>

(* RefreshToken.for_user: a new token, and zadd.                           *)
Register(r) ==
    LET t == Len(token) + 1 IN
    /\ req[r].pc = "login"
    /\ t \in Jtis
    /\ token' = Append(token, [exp |-> Expiry])
    /\ registered' = registered \cup {t}
    /\ Goto(r, "renew", 0, {t}, {})
    /\ UNCHANGED <<now, password, held, keyEnds, blocked, revoked>>

(* expire, which does nothing to a key that is gone; then the answer.      *)
Renewed_Once == \* mutant: expire only sets the expiry of a new key
    IF registered = {} \/ keyEnds # 0 THEN keyEnds
    ELSE now + (Lifetime + Slack) * Second
Renewed ==
    IF registered = {} THEN keyEnds ELSE now + (Lifetime + Slack) * Second

Renew(r) ==
    /\ req[r].pc = "renew"
    /\ keyEnds' = Renewed
    /\ held' = held \cup req[r].todo
    /\ Finish(r)
    /\ UNCHANGED <<now, password, token, registered, blocked, revoked>>

-------------------------------------------------------------------------------
(* LogoutView: the token is verified, its time to live computed, and setex *)
(* called.                                                                 *)
BeginLogout(r, t) ==
    /\ req[r].pc = "idle"
    /\ t \in held /\ Live(t)
    /\ Goto(r, "logout", now, {t}, {})
    /\ UNCHANGED <<now, password, token, held, registered, keyEnds, blocked, revoked>>

Logout(r) ==
    /\ req[r].pc = "logout"
    /\ \E t \in req[r].todo, at \in Since(r) :
         blocked' = Blocked(t, Ttl(token[t].exp, at))
    /\ revoked' = revoked \cup req[r].todo
    /\ Finish(r)
    /\ UNCHANGED <<now, password, token, held, registered, keyEnds>>

-------------------------------------------------------------------------------
(* PasswordResetService.confirm: a link mailed under the current password  *)
(* passes the check; overlapping requests may both pass it.                *)
BeginReset(r) ==
    /\ req[r].pc = "idle"
    /\ Goto(r, "reset", 0, {}, {})
    /\ UNCHANGED <<now, password, token, held, registered, keyEnds, blocked, revoked>>

(* The password is saved; `owed` are the sessions open and known then.     *)
SavePassword(r) ==
    /\ req[r].pc = "reset"
    /\ password < MaxPasswords
    /\ password' = password + 1
    /\ Goto(r, "scan", now, {}, held \cap registered)
    /\ UNCHANGED <<now, token, held, registered, keyEnds, blocked, revoked>>

(* blocklist_all_for_user: zrangebyscore from now, ...                     *)
StillValid_Scores(at) == \* mutant: keeps the scores, not the members
    {token[t].exp : t \in {u \in registered : token[u].exp >= at}}
StillValid(at) ==
    {t \in registered : token[t].exp >= at}

Scan(r) ==
    /\ req[r].pc = "scan"
    /\ \E at \in Since(r) : Goto(r, "block", at, StillValid(at), req[r].owed)
    /\ UNCHANGED <<now, password, token, held, registered, keyEnds, blocked, revoked>>

(* ... a setex for each, in the order of their scores, ...                 *)
Block(r) ==
    /\ req[r].pc = "block"
    /\ \E t \in req[r].todo :
         /\ \A u \in req[r].todo : token[t].exp <= token[u].exp
         /\ blocked' = Blocked(t, Ttl(token[t].exp, req[r].at))
         /\ Goto(r, "block", req[r].at, req[r].todo \ {t}, req[r].owed)
    /\ UNCHANGED <<now, password, token, held, registered, keyEnds, revoked>>

(* ... zremrangebyscore, which deletes an empty key, and the answer.       *)
Purged(at) == {t \in registered : token[t].exp > at}

Answer(r) ==
    /\ req[r].pc = "block"
    /\ req[r].todo = {}
    /\ registered' = Purged(req[r].at)
    /\ keyEnds' = IF registered' = {} THEN 0 ELSE keyEnds
    /\ revoked' = revoked \cup req[r].owed
    /\ Finish(r)
    /\ UNCHANGED <<now, password, token, held, blocked>>

-------------------------------------------------------------------------------
(* A worker dies, or Redis fails it: what was written stays.               *)
Crash(r) ==
    /\ req[r].pc # "idle"
    /\ Finish(r)
    /\ UNCHANGED <<now, password, token, held, registered, keyEnds, blocked, revoked>>

(* Time passes, and the key of the user may expire.                        *)
Tick ==
    LET ends == keyEnds = now + 1 IN
    /\ now < MaxTime
    /\ now' = now + 1
    /\ registered' = IF ends THEN {} ELSE registered
    /\ keyEnds' = IF ends THEN 0 ELSE keyEnds
    /\ UNCHANGED <<password, token, held, blocked, revoked, req>>

Init ==
    /\ now = 0 /\ password = 0 /\ keyEnds = 0
    /\ token = <<>>
    /\ held = {} /\ registered = {} /\ revoked = {}
    /\ blocked = [t \in Jtis |-> 0]
    /\ req = [r \in Requests |-> Idle]

Next ==
    \/ \E r \in Requests :
         \/ Authenticate(r) \/ Register(r) \/ Renew(r)
         \/ \E t \in Jtis : BeginLogout(r, t)
         \/ Logout(r)
         \/ BeginReset(r) \/ SavePassword(r) \/ Scan(r) \/ Block(r) \/ Answer(r)
         \/ Crash(r)
    \/ Tick

Spec == Init /\ [][Next]_vars

-------------------------------------------------------------------------------
(* Properties                                                              *)

(* Tokens, Redis keys and requests stay within their types.                *)
TypeOK ==
    /\ {now, password, keyEnds} \subseteq Nat
    /\ token \in Seq(Token)
    /\ held \subseteq DOMAIN token /\ registered \subseteq DOMAIN token
    /\ revoked \subseteq DOMAIN token
    /\ blocked \in [Jtis -> Nat]
    /\ req \in [Requests -> Request]

(* A token that a logout, or a reset that found it open, has revoked with  *)
(* success is refused from then on, but for the last fraction of its life, *)
(* and so is one that a request blocked before it died: whatever the       *)
(* delays between reading the clock and setex, and whichever of two        *)
(* overlapping requests sets the block last.                               *)
RevokedStaysDead ==
    \A t \in DOMAIN token :
        (t \in revoked \/ blocked[t] # 0) /\ now + Second <= token[t].exp => ~Usable(t)

(* Neither the expiry of the key nor the clean-up after a reset forgets a  *)
(* token that the user holds and that is live: a later reset would miss    *)
(* it.                                                                     *)
NoLiveTokenForgotten ==
    [][\A t \in held \cap registered : Live(t)' => t \in registered']_vars
===============================================================================
