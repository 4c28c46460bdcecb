------------------------- MODULE RefreshTokensProofs --------------------------
(***************************************************************************)
(* Proofs about RefreshTokens, for any number of workers and tokens, and   *)
(* any lifetime, slack and fraction of a second.                           *)
(***************************************************************************)
EXTENDS RefreshTokens, TLAPS

Issued == DOMAIN token

(* What a request has read of the clock and of the tokens.                 *)
ReqOK(r) ==
    /\ req[r].at <= now
    /\ req[r].todo \subseteq Issued /\ req[r].owed \subseteq Issued
    /\ req[r].pc = "logout" => \E t \in Issued : req[r].todo = {t}

TypeInv ==
    /\ TypeOK
    /\ Len(token) <= MaxTokens
    /\ \A r \in Requests : ReqOK(r)

-------------------------------------------------------------------------------
LEMMA InitTypeInv == Init => TypeInv
<1> SUFFICES ASSUME Init PROVE TypeInv
  OBVIOUS
<1>1. token = <<>> /\ Len(token) = 0 /\ token \in Seq(Token) /\ Issued = {}
  BY DEF Init, Issued
<1>2. Idle \in Request /\ Idle.at = 0 /\ Idle.todo = {} /\ Idle.owed = {} /\ Idle.pc = "idle"
  BY DEF Idle, Request
<1>3. TypeOK
  BY <1>1, <1>2 DEF Init, TypeOK
<1>4. \A r \in Requests : ReqOK(r)
  <2>1. ASSUME NEW r \in Requests PROVE req[r] = Idle /\ now = 0
    BY DEF Init
  <2>2. 0 <= 0
    OBVIOUS
  <2>3. QED BY <1>2, <2>1, <2>2 DEF ReqOK
<1>5. QED BY <1>1, <1>3, <1>4, BoundAssumption DEF TypeInv

LEMMA TokenFacts ==
    ASSUME TypeInv
    PROVE  /\ Issued = 1 .. Len(token) /\ Issued \subseteq Jtis /\ Len(token) \in Nat
           /\ \A t \in Issued : token[t].exp \in Nat /\ blocked[t] \in Nat
           /\ now \in Nat /\ keyEnds \in Nat
<1>1. token \in Seq(Token) /\ Len(token) \in Nat
  BY DEF TypeInv, TypeOK
<1>2. Issued = 1 .. Len(token) /\ \A t \in Issued : token[t] \in Token
  BY <1>1 DEF Issued
<1>3. Issued \subseteq Jtis
  BY <1>1, <1>2, BoundAssumption DEF Jtis, TypeInv
<1>4. QED BY <1>1, <1>2, <1>3 DEF Token, TypeInv, TypeOK

(* exp is not later than a lifetime from now.                              *)
LEMMA ExpiryBound ==
    ASSUME now \in Nat
    PROVE  Expiry \in Nat /\ Expiry <= now + Lifetime * Second
<1>1. ASSUME NEW n \in Nat, NEW s \in Nat \ {0}
      PROVE  n \div s \in Nat /\ (n \div s) * s <= n
  OBVIOUS
<1>2. now \div Second \in Nat /\ (now \div Second) * Second <= now
  BY <1>1, TimeAssumption
<1>3. ASSUME NEW a \in Nat, NEW l \in Nat, NEW s \in Nat
      PROVE  (a + l) * s = a * s + l * s /\ (a + l) * s \in Nat /\ a * s \in Nat /\ l * s \in Nat
  OBVIOUS
<1>4. /\ Expiry = (now \div Second) * Second + Lifetime * Second /\ Expiry \in Nat
      /\ (now \div Second) * Second \in Nat /\ Lifetime * Second \in Nat
  BY <1>2, <1>3, TimeAssumption DEF Expiry
<1>5. QED BY <1>2, <1>4

(* What setex leaves: nothing, or a block that ends less than a second     *)
(* before the token does.                                                  *)
LEMMA TtlBound ==
    ASSUME NEW exp \in Nat, NEW at \in Nat, NEW n \in Nat, at <= n
    PROVE  /\ Ttl(exp, at) \in Nat
           /\ Ttl(exp, at) = 0 => n + Second > exp
           /\ n + Ttl(exp, at) * Second \in Nat
           /\ n + Ttl(exp, at) * Second + Second > exp
<1>1. Second \in Nat \ {0}
  BY TimeAssumption
<1>2. CASE at >= exp
  <2>1. Ttl(exp, at) = 0 /\ Ttl(exp, at) * Second = 0
    BY <1>1, <1>2 DEF Ttl
  <2>2. QED BY <1>1, <1>2, <2>1
<1>3. CASE ~(at >= exp)
  <2>1. Ttl(exp, at) = (exp - at) \div Second /\ exp - at \in Nat
    BY <1>3 DEF Ttl
  <2>2. ASSUME NEW m \in Nat, NEW s \in Nat \ {0}
        PROVE  m \div s \in Nat /\ (m \div s) * s \in Nat /\ m < (m \div s) * s + s
    OBVIOUS
  <2>3. /\ Ttl(exp, at) \in Nat /\ Ttl(exp, at) * Second \in Nat
        /\ exp - at < Ttl(exp, at) * Second + Second
    BY <1>1, <2>1, <2>2
  <2>4. Ttl(exp, at) = 0 => Ttl(exp, at) * Second = 0
    BY <1>1
  <2> HIDE DEF Ttl
  <2>5. QED BY <1>1, <2>3, <2>4
<1>4. QED BY <1>2, <1>3

-------------------------------------------------------------------------------
(* A request moves on, and the tokens stay as they are.                    *)
QuietTokens == UNCHANGED <<token, now>>

LEMMA Moved ==
    ASSUME TypeInv, NEW r \in Requests, NEW q \in Request, req' = [req EXCEPT ![r] = q]
    PROVE  /\ req' \in [Requests -> Request] /\ req'[r] = q
           /\ \A s \in Requests \ {r} : req'[s] = req[s]
BY DEF TypeInv, TypeOK

LEMMA IdleType == Idle \in Request /\ Idle.at = 0 /\ Idle.todo = {} /\ Idle.owed = {} /\ Idle.pc = "idle"
BY DEF Idle, Request

LEMMA IdleOK ==
    ASSUME TypeInv, NEW r \in Requests, req'[r] = Idle, now' \in Nat
    PROVE  ReqOK(r)'
<1>1. 0 <= now'
  OBVIOUS
<1>2. QED BY <1>1, IdleType DEF ReqOK

(* Requests stay good while tokens are added and time passes.              *)
LEMMA Kept ==
    ASSUME TypeInv, NEW r \in Requests, req'[r] = req[r], Issued \subseteq Issued', now' \in Nat,
           now <= now'
    PROVE  ReqOK(r)'
<1>1. /\ req[r].at \in Nat /\ now \in Nat /\ req[r].at <= now
      /\ req[r].todo \subseteq Issued /\ req[r].owed \subseteq Issued
      /\ req[r].pc = "logout" => \E t \in Issued : req[r].todo = {t}
  BY DEF TypeInv, TypeOK, ReqOK, Request
<1>2. req[r].at <= now'
  BY <1>1
<1>3. QED BY <1>1, <1>2 DEF ReqOK

LEMMA Went ==
    ASSUME TypeInv, NEW r \in Requests,
           NEW pc \in {"idle", "login", "renew", "logout", "reset", "scan", "block"},
           NEW at \in Nat, NEW todo \in SUBSET Jtis, NEW owed \in SUBSET Jtis,
           Goto(r, pc, at, todo, owed)
    PROVE  /\ req' \in [Requests -> Request]
           /\ req'[r].pc = pc /\ req'[r].at = at /\ req'[r].todo = todo /\ req'[r].owed = owed
           /\ \A s \in Requests \ {r} : req'[s] = req[s]
<1> DEFINE q == [pc |-> pc, at |-> at, todo |-> todo, owed |-> owed]
<1>1. q \in Request /\ q.pc = pc /\ q.at = at /\ q.todo = todo /\ q.owed = owed
  BY DEF Request
<1>2. req' = [req EXCEPT ![r] = q]
  BY DEF Goto
<1> HIDE DEF q
<1>3. QED BY <1>1, <1>2, Moved

LEMMA WentToBlock ==
    ASSUME TypeInv, NEW r \in Requests, NEW at \in Nat, NEW todo \in SUBSET Jtis,
           NEW owed \in SUBSET Jtis, Goto(r, "block", at, todo, owed)
    PROVE  /\ req'[r].pc = "block" /\ req'[r].todo = todo /\ req'[r].owed = owed
           /\ \A s \in Requests \ {r} : req'[s] = req[s]
<1>1. "block" \in {"idle", "login", "renew", "logout", "reset", "scan", "block"}
  OBVIOUS
<1>2. QED BY <1>1, Went

(* A token is issued: it is new, and the others stay as they are.          *)
LEMMA Registers ==
    ASSUME TypeInv, NEW r \in Requests, Register(r)
    PROVE  \E t \in Jtis :
             /\ t \notin Issued /\ Issued' = Issued \cup {t}
             /\ token' \in Seq(Token) /\ Len(token') <= MaxTokens
             /\ \A u \in Issued : token'[u] = token[u]
             /\ token'[t].exp = Expiry
             /\ registered' = registered \cup {t}
             /\ Goto(r, "renew", 0, {t}, {})
<1>1. token \in Seq(Token) /\ Len(token) \in Nat /\ Issued = 1 .. Len(token) /\ now \in Nat
      /\ MaxTokens \in Nat
  BY TokenFacts, BoundAssumption DEF TypeInv, TypeOK
<1>2. [exp |-> Expiry] \in Token
  BY <1>1, ExpiryBound DEF Token
<1>3. PICK t \in 1 .. MaxTokens :
        /\ t = Len(token) + 1
        /\ token' = Append(token, [exp |-> Expiry])
        /\ registered' = registered \cup {t}
        /\ Goto(r, "renew", 0, {t}, {})
  BY DEF Register, Jtis
<1>4. /\ token' \in Seq(Token) /\ Len(token') = t
      /\ \A u \in 1 .. Len(token) : token'[u] = token[u]
      /\ token'[t] = [exp |-> Expiry]
  BY <1>1, <1>2, <1>3
<1>5. Issued' = 1 .. t
  BY <1>4 DEF Issued
<1>6. Issued' = Issued \cup {t} /\ t \notin Issued
  BY <1>1, <1>3, <1>5
<1>7. t \in Jtis /\ Len(token') <= MaxTokens /\ token'[t].exp = Expiry
  BY <1>1, <1>3, <1>4 DEF Jtis
<1>8. QED BY <1>1, <1>3, <1>4, <1>6, <1>7

LEMMA Blocks ==
    ASSUME TypeInv, NEW t \in Jtis, NEW ttl \in Nat, blocked' = Blocked(t, ttl),
           now + ttl * Second \in Nat
    PROVE  /\ blocked' \in [Jtis -> Nat]
           /\ ttl = 0 => blocked' = blocked
           /\ ttl # 0 => blocked'[t] = now + ttl * Second
           /\ \A u \in Jtis \ {t} : blocked'[u] = blocked[u]
<1> DEFINE ends == now + ttl * Second
<1>1. ends \in Nat /\ blocked \in [Jtis -> Nat]
  BY DEF TypeInv, TypeOK
<1>2. blocked' = IF ttl <= 0 THEN blocked ELSE [blocked EXCEPT ![t] = ends]
  BY DEF Blocked
<1> HIDE DEF ends
<1>3. /\ blocked' \in [Jtis -> Nat]
      /\ ttl = 0 => blocked' = blocked
      /\ ttl # 0 => blocked'[t] = ends
      /\ \A u \in Jtis \ {t} : blocked'[u] = blocked[u]
  BY <1>1, <1>2
<1>4. QED BY <1>3 DEF ends

-------------------------------------------------------------------------------
LEMMA TypeStep == TypeInv /\ [Next]_vars => TypeInv'
<1> SUFFICES ASSUME TypeInv, [Next]_vars PROVE TypeInv'
  OBVIOUS
<1>0. /\ now \in Nat /\ keyEnds \in Nat /\ password \in Nat /\ Issued \subseteq Jtis
      /\ held \subseteq Issued /\ registered \subseteq Issued /\ revoked \subseteq Issued
      /\ token \in Seq(Token) /\ Len(token) <= MaxTokens /\ blocked \in [Jtis -> Nat]
      /\ req \in [Requests -> Request]
  BY TokenFacts DEF TypeInv, TypeOK, Issued
<1>00. ASSUME NEW r \in Requests
       PROVE  /\ req[r].at \in Nat /\ req[r].at <= now
              /\ req[r].todo \subseteq Issued /\ req[r].owed \subseteq Issued
              /\ req[r].todo \in SUBSET Jtis /\ req[r].owed \in SUBSET Jtis
  BY <1>0 DEF TypeInv, ReqOK, Request
(* One request goes on to a good one; nothing but blocks and keys change.  *)
<1>1. ASSUME NEW r \in Requests, UNCHANGED <<now, token>>,
             NEW pc \in {"login", "renew", "reset", "scan", "block"}, NEW at \in Nat, at <= now,
             NEW todo \in SUBSET Issued, NEW owed \in SUBSET Issued,
             Goto(r, pc, at, todo, owed)
      PROVE  req' \in [Requests -> Request] /\ \A s \in Requests : ReqOK(s)'
  <2>1. /\ req' \in [Requests -> Request]
        /\ req'[r].pc = pc /\ req'[r].at = at /\ req'[r].todo = todo /\ req'[r].owed = owed
        /\ \A s \in Requests \ {r} : req'[s] = req[s]
    <3>1. todo \in SUBSET Jtis /\ owed \in SUBSET Jtis
      BY <1>0
    <3>2. pc \in {"idle", "login", "renew", "logout", "reset", "scan", "block"}
      OBVIOUS
    <3>3. QED BY <1>1, <3>1, <3>2, Went
  <2>2. Issued' = Issued
    BY <1>1 DEF Issued
  <2>3. ReqOK(r)'
    BY <1>1, <2>1, <2>2 DEF ReqOK
  <2>4. ASSUME NEW s \in Requests, s # r PROVE ReqOK(s)'
    BY <1>0, <1>1, <2>1, <2>2, <2>4, Kept
  <2>5. QED BY <2>1, <2>3, <2>4
<1>2. ASSUME NEW r \in Requests, UNCHANGED <<now, token>>, Finish(r)
      PROVE  req' \in [Requests -> Request] /\ \A s \in Requests : ReqOK(s)'
  <2>1. req' \in [Requests -> Request] /\ req'[r] = Idle /\ \A s \in Requests \ {r} : req'[s] = req[s]
    BY <1>2, IdleType, Moved DEF Finish
  <2>2. Issued' = Issued
    BY <1>2 DEF Issued
  <2>3. ASSUME NEW s \in Requests, s # r PROVE ReqOK(s)'
    BY <1>0, <1>2, <2>1, <2>2, <2>3, Kept
  <2>4. QED BY <1>0, <1>2, <2>1, <2>3, IdleOK
<1>3. ASSUME NEW r \in Requests, Authenticate(r) \/ BeginReset(r) PROVE TypeInv'
  <2>1. /\ Goto(r, "login", 0, {}, {}) \/ Goto(r, "reset", 0, {}, {})
        /\ UNCHANGED <<now, password, token, held, registered, keyEnds, blocked, revoked>>
    BY <1>3 DEF Authenticate, BeginReset
  <2>2. {} \in SUBSET Issued /\ 0 \in Nat /\ 0 <= now
    BY <1>0
  <2>3. req' \in [Requests -> Request] /\ \A s \in Requests : ReqOK(s)'
    BY <1>1, <2>1, <2>2
  <2>4. QED BY <2>1, <2>3 DEF TypeInv, TypeOK
<1>4. ASSUME NEW r \in Requests, Register(r) PROVE TypeInv'
  <2>1. PICK t \in Jtis :
             /\ Issued' = Issued \cup {t}
             /\ token' \in Seq(Token) /\ Len(token') <= MaxTokens
             /\ registered' = registered \cup {t}
             /\ Goto(r, "renew", 0, {t}, {})
    BY <1>4, Registers
  <2>2. UNCHANGED <<now, password, held, keyEnds, blocked, revoked>>
    BY <1>4 DEF Register
  <2>3. /\ req' \in [Requests -> Request]
        /\ req'[r].pc = "renew" /\ req'[r].at = 0 /\ req'[r].todo = {t} /\ req'[r].owed = {}
        /\ \A s \in Requests \ {r} : req'[s] = req[s]
    <3>1. {t} \in SUBSET Jtis /\ {} \in SUBSET Jtis /\ 0 \in Nat
      OBVIOUS
    <3>2. QED BY <2>1, <3>1, Went
  <2>4. ReqOK(r)'
    BY <1>0, <2>1, <2>2, <2>3 DEF ReqOK
  <2>5. ASSUME NEW s \in Requests, s # r PROVE ReqOK(s)'
    BY <1>0, <2>1, <2>2, <2>3, <2>5, Kept
  <2>6. held' \subseteq Issued' /\ registered' \subseteq Issued' /\ revoked' \subseteq Issued'
    BY <1>0, <2>1, <2>2
  <2>7. QED BY <1>0, <2>1, <2>2, <2>3, <2>4, <2>5, <2>6 DEF TypeInv, TypeOK, Issued
<1>5. ASSUME NEW r \in Requests, Renew(r) PROVE TypeInv'
  <2>1. /\ keyEnds' = Renewed /\ held' = held \cup req[r].todo /\ Finish(r)
        /\ UNCHANGED <<now, password, token, registered, blocked, revoked>>
    BY <1>5 DEF Renew
  <2>2. keyEnds' \in Nat
    <3>1. ASSUME NEW a \in Nat, NEW b \in Nat, NEW c \in Nat PROVE now + (a + b) * c \in Nat
      BY <1>0
    <3>2. QED BY <1>0, <2>1, <3>1, TimeAssumption DEF Renewed
  <2>3. QED BY <1>0, <1>00, <1>2, <2>1, <2>2 DEF TypeInv, TypeOK, Issued
<1>6. ASSUME NEW r \in Requests, NEW t \in Jtis, BeginLogout(r, t) PROVE TypeInv'
  <2>1. /\ t \in held /\ Goto(r, "logout", now, {t}, {})
        /\ UNCHANGED <<now, password, token, held, registered, keyEnds, blocked, revoked>>
    BY <1>6 DEF BeginLogout
  <2>2. /\ req' \in [Requests -> Request]
        /\ req'[r].pc = "logout" /\ req'[r].at = now /\ req'[r].todo = {t} /\ req'[r].owed = {}
        /\ \A s \in Requests \ {r} : req'[s] = req[s]
    <3>1. {t} \in SUBSET Jtis /\ {} \in SUBSET Jtis
      OBVIOUS
    <3>2. QED BY <1>0, <2>1, <3>1, Went
  <2>3. Issued' = Issued /\ t \in Issued
    BY <1>0, <2>1 DEF Issued
  <2>4. ReqOK(r)'
    BY <1>0, <2>1, <2>2, <2>3 DEF ReqOK
  <2>5. ASSUME NEW s \in Requests, s # r PROVE ReqOK(s)'
    BY <1>0, <2>1, <2>2, <2>3, <2>5, Kept
  <2>6. QED BY <2>1, <2>2, <2>4, <2>5 DEF TypeInv, TypeOK
<1>7. ASSUME NEW r \in Requests, Logout(r) PROVE TypeInv'
  <2>1. PICK t \in req[r].todo, at \in Since(r) : blocked' = Blocked(t, Ttl(token[t].exp, at))
    BY <1>7 DEF Logout
  <2>2. t \in Issued /\ at \in Nat /\ at <= now /\ token[t].exp \in Nat
    BY <1>0, <1>00, TokenFacts DEF Since
  <2>3. blocked' \in [Jtis -> Nat]
    BY <1>0, <2>1, <2>2, TtlBound, Blocks
  <2>4. /\ revoked' = revoked \cup req[r].todo /\ Finish(r)
        /\ UNCHANGED <<now, password, token, held, registered, keyEnds>>
    BY <1>7 DEF Logout
  <2>5. QED BY <1>0, <1>00, <1>2, <2>3, <2>4 DEF TypeInv, TypeOK, Issued
<1>8. ASSUME NEW r \in Requests, SavePassword(r) PROVE TypeInv'
  <2>1. /\ password' = password + 1 /\ Goto(r, "scan", now, {}, held \cap registered)
        /\ UNCHANGED <<now, token, held, registered, keyEnds, blocked, revoked>>
    BY <1>8 DEF SavePassword
  <2>2. held \cap registered \in SUBSET Issued /\ {} \in SUBSET Issued
    BY <1>0
  <2>3. req' \in [Requests -> Request] /\ \A s \in Requests : ReqOK(s)'
    <3>1. now <= now /\ UNCHANGED <<now, token>>
      BY <1>0, <2>1
    <3>2. QED BY <1>0, <1>1, <2>1, <2>2, <3>1
  <2>4. password' \in Nat
    BY <1>0, <2>1
  <2>5. QED BY <2>1, <2>3, <2>4 DEF TypeInv, TypeOK
<1>9. ASSUME NEW r \in Requests, Scan(r) PROVE TypeInv'
  <2>1. PICK at \in Since(r) : Goto(r, "block", at, StillValid(at), req[r].owed)
    BY <1>9 DEF Scan
  <2>2. at \in Nat /\ at <= now /\ StillValid(at) \in SUBSET Issued
    BY <1>0, <1>00 DEF Since, StillValid
  <2>3. UNCHANGED <<now, password, token, held, registered, keyEnds, blocked, revoked>>
    BY <1>9 DEF Scan
  <2>4. req' \in [Requests -> Request] /\ \A s \in Requests : ReqOK(s)'
    BY <1>00, <1>1, <2>1, <2>2, <2>3
  <2>5. QED BY <2>3, <2>4 DEF TypeInv, TypeOK
<1>10. ASSUME NEW r \in Requests, Block(r) PROVE TypeInv'
  <2>1. PICK t \in req[r].todo :
           /\ blocked' = Blocked(t, Ttl(token[t].exp, req[r].at))
           /\ Goto(r, "block", req[r].at, req[r].todo \ {t}, req[r].owed)
    BY <1>10 DEF Block
  <2>2. t \in Issued /\ token[t].exp \in Nat /\ req[r].todo \ {t} \in SUBSET Issued
    BY <1>00, TokenFacts
  <2>3. blocked' \in [Jtis -> Nat]
    BY <1>0, <1>00, <2>1, <2>2, TtlBound, Blocks
  <2>4. UNCHANGED <<now, password, token, held, registered, keyEnds, revoked>>
    BY <1>10 DEF Block
  <2>5. req' \in [Requests -> Request] /\ \A s \in Requests : ReqOK(s)'
    BY <1>00, <1>1, <2>1, <2>2, <2>4
  <2>6. QED BY <2>3, <2>4, <2>5 DEF TypeInv, TypeOK
<1>11. ASSUME NEW r \in Requests, Answer(r) PROVE TypeInv'
  <2>1. /\ registered' = Purged(req[r].at) /\ (keyEnds' = 0 \/ keyEnds' = keyEnds)
        /\ revoked' = revoked \cup req[r].owed /\ Finish(r)
        /\ UNCHANGED <<now, password, token, held, blocked>>
    BY <1>11 DEF Answer
  <2>2. registered' \subseteq Issued /\ keyEnds' \in Nat
    BY <1>0, <2>1 DEF Purged
  <2>3. QED BY <1>0, <1>00, <1>2, <2>1, <2>2 DEF TypeInv, TypeOK, Issued
<1>12. ASSUME NEW r \in Requests, Crash(r) PROVE TypeInv'
  <2>1. /\ Finish(r)
        /\ UNCHANGED <<now, password, token, held, registered, keyEnds, blocked, revoked>>
    BY <1>12 DEF Crash
  <2>2. QED BY <1>2, <2>1 DEF TypeInv, TypeOK
<1>13. CASE Tick
  <2>1. /\ now' = now + 1 /\ registered' \subseteq registered /\ keyEnds' \in {0, keyEnds}
        /\ UNCHANGED <<password, token, held, blocked, revoked, req>>
    BY <1>13 DEF Tick
  <2>2. now' \in Nat /\ now <= now' /\ Issued' = Issued
    BY <1>0, <2>1 DEF Issued
  <2>3. \A r \in Requests : ReqOK(r)'
    BY <2>1, <2>2, Kept
  <2>4. QED BY <1>0, <2>1, <2>2, <2>3 DEF TypeInv, TypeOK, Issued
<1>14. CASE UNCHANGED vars
  BY <1>14 DEF vars, TypeInv, TypeOK, ReqOK, Issued
<1>15. QED
  BY <1>3, <1>4, <1>5, <1>6, <1>7, <1>8, <1>9, <1>10, <1>11, <1>12, <1>13, <1>14 DEF Next

(* Tokens, the keys in Redis and the requests stay within their types:     *)
(* accounts/services.py, tokens.py.                                        *)
THEOREM TypeCorrect == Spec => []TypeOK
<1>1. TypeInv => TypeOK
  BY DEF TypeInv
<1>2. QED BY InitTypeInv, TypeStep, <1>1, PTL DEF Spec

-------------------------------------------------------------------------------
(* A refused token, but for the last fraction of its life.                 *)
Dead(t) == now + Second > token[t].exp \/ blocked[t] + Second > token[t].exp

(* The sessions a reset owes are known to Redis until it has read them, and *)
(* then yet to be blocked or dead.                                         *)
Owes(r) ==
    /\ req[r].pc = "scan" => /\ req[r].owed \subseteq held
                             /\ \A t \in req[r].owed : t \in registered \/ Dead(t)
    /\ req[r].pc = "block" => \A t \in req[r].owed : t \in req[r].todo \/ Dead(t)

(* The key of the user outlives the tokens that reached him.               *)
KeyOK ==
    /\ registered = {} => keyEnds = 0
    /\ \A t \in Issued : token[t].exp <= now + Lifetime * Second
    /\ \A t \in held \cap registered : keyEnds = 0 \/ token[t].exp < keyEnds

SessionInv ==
    /\ TypeInv /\ KeyOK
    /\ \A r \in Requests : Owes(r)
    /\ \A t \in revoked : Dead(t)

LEMMA InitSession == Init => SessionInv
<1> SUFFICES ASSUME Init PROVE SessionInv
  OBVIOUS
<1>1. KeyOK
  BY DEF Init, KeyOK, Issued
<1>2. \A r \in Requests : Owes(r)
  <2>1. ASSUME NEW r \in Requests PROVE req[r].pc = "idle"
    BY IdleType DEF Init
  <2>2. QED BY <2>1 DEF Owes
<1>3. \A t \in revoked : Dead(t)
  BY DEF Init
<1>4. QED BY InitTypeInv, <1>1, <1>2, <1>3 DEF SessionInv

(* Death is final: time passes, and a block that is set again is late      *)
(* enough as well.                                                         *)
LEMMA DeadStays ==
    ASSUME TypeInv, NEW t \in Issued, Dead(t), now' \in Nat, now <= now', token'[t] = token[t],
           blocked'[t] \in Nat, blocked'[t] = blocked[t] \/ blocked'[t] + Second > token[t].exp
    PROVE  Dead(t)'
<1>1. /\ token[t].exp \in Nat /\ blocked[t] \in Nat /\ now \in Nat /\ Second \in Nat
  BY TokenFacts, TimeAssumption
<1>2. QED BY <1>1 DEF Dead

LEMMA ExpiredIsDead ==
    ASSUME TypeInv, NEW t \in Issued, token[t].exp <= now
    PROVE  Dead(t)
<1>1. token[t].exp \in Nat /\ now \in Nat /\ Second \in Nat \ {0}
  BY TokenFacts, TimeAssumption
<1>2. QED BY <1>1 DEF Dead

(* A setex computed from a clock read before blocks its token to the end.  *)
LEMMA BlockKills ==
    ASSUME TypeInv, NEW t \in Issued, NEW at \in Nat, at <= now,
           blocked' = Blocked(t, Ttl(token[t].exp, at)), UNCHANGED <<now, token>>
    PROVE  /\ Dead(t)' /\ blocked' \in [Jtis -> Nat]
           /\ \A u \in Jtis : blocked'[u] = blocked[u] \/ (u = t /\ blocked'[u] + Second > token[u].exp)
<1> DEFINE ttl == Ttl(token[t].exp, at)
<1>1. /\ token[t].exp \in Nat /\ now \in Nat /\ t \in Jtis
  BY TokenFacts
<1>2. /\ ttl \in Nat
      /\ ttl = 0 => now + Second > token[t].exp
      /\ now + ttl * Second \in Nat
      /\ now + ttl * Second + Second > token[t].exp
  BY <1>1, TtlBound
<1>3. blocked' = Blocked(t, ttl)
  OBVIOUS
<1> HIDE DEF ttl
<1>4. /\ blocked' \in [Jtis -> Nat]
      /\ ttl = 0 => blocked' = blocked
      /\ ttl # 0 => blocked'[t] = now + ttl * Second
      /\ \A u \in Jtis \ {t} : blocked'[u] = blocked[u]
  BY <1>1, <1>2, <1>3, Blocks
<1>5. CASE ttl = 0
  BY <1>2, <1>4, <1>5 DEF Dead
<1>6. CASE ttl # 0
  <2>1. blocked'[t] + Second > token[t].exp
    BY <1>2, <1>4, <1>6
  <2>2. QED BY <1>4, <2>1 DEF Dead
<1>7. QED BY <1>5, <1>6

(* Reading the clock before a request is answered.                         *)
LEMMA SessionFacts ==
    ASSUME SessionInv
    PROVE  /\ now \in Nat /\ keyEnds \in Nat /\ Issued \subseteq Jtis
           /\ held \subseteq Issued /\ registered \subseteq Issued /\ revoked \subseteq Issued
           /\ blocked \in [Jtis -> Nat]
           /\ \A t \in Issued : token[t].exp \in Nat
           /\ \A r \in Requests :
                /\ req[r].at \in Nat /\ req[r].at <= now
                /\ req[r].todo \subseteq Issued /\ req[r].owed \subseteq Issued
                /\ req[r].pc = "logout" => \E t \in Issued : req[r].todo = {t}
BY TokenFacts DEF SessionInv, TypeInv, TypeOK, ReqOK, Request, Issued

(* What every step leaves of dead tokens and of the other requests.        *)
LEMMA StaysGood ==
    ASSUME SessionInv, now' \in Nat, now <= now', blocked' \in [Jtis -> Nat], held \subseteq held',
           \A t \in Issued :
               /\ token'[t] = token[t]
               /\ blocked'[t] = blocked[t] \/ blocked'[t] + Second > token[t].exp
    PROVE  /\ \A t \in Issued : Dead(t) => Dead(t)'
           /\ \A t \in revoked : Dead(t)'
           /\ \A r \in Requests :
                /\ req'[r] = req[r]
                /\ \A t \in held \cap registered : t \in registered' \/ Dead(t)'
                => Owes(r)'
<1>1. ASSUME NEW t \in Issued, Dead(t) PROVE Dead(t)'
  BY <1>1, SessionFacts, DeadStays DEF SessionInv
<1>2. \A t \in revoked : Dead(t)'
  BY <1>1, SessionFacts DEF SessionInv
<1>3. ASSUME NEW r \in Requests, req'[r] = req[r],
             \A t \in held \cap registered : t \in registered' \/ Dead(t)'
      PROVE  Owes(r)'
  <2>1. Owes(r) /\ req[r].owed \subseteq Issued
    BY SessionFacts DEF SessionInv
  <2>2. QED BY <1>1, <1>3, <2>1 DEF Owes
<1>4. QED BY <1>1, <1>2, <1>3

LEMMA SessionStep == SessionInv /\ [Next]_vars => SessionInv'
<1> SUFFICES ASSUME SessionInv, [Next]_vars PROVE SessionInv'
  OBVIOUS
<1>0. TypeInv /\ TypeInv'
  BY TypeStep DEF SessionInv
<1> DEFINE Good == /\ KeyOK'
                   /\ \A r \in Requests : Owes(r)'
                   /\ \A t \in revoked' : Dead(t)'
<1> SUFFICES Good
  BY <1>0 DEF SessionInv
(* Request r goes on while time, tokens, keys and blocks stay.             *)
<1>1. ASSUME NEW r \in Requests, \A s \in Requests \ {r} : req'[s] = req[s],
             UNCHANGED <<now, token, held, registered, keyEnds, blocked, revoked>>, Owes(r)'
      PROVE  Good
  <2>1. KeyOK'
    BY <1>1 DEF SessionInv, KeyOK, Issued
  <2>2. QED BY <1>1, <2>1, StaysGood, SessionFacts
<1>2. ASSUME NEW r \in Requests, Authenticate(r) \/ BeginReset(r) \/ \E t \in Jtis : BeginLogout(r, t)
      PROVE  Good
  <2>1. /\ UNCHANGED <<now, token, held, registered, keyEnds, blocked, revoked>>
        /\ \/ Goto(r, "login", 0, {}, {}) \/ Goto(r, "reset", 0, {}, {})
           \/ \E t \in Jtis : Goto(r, "logout", now, {t}, {})
    BY <1>2 DEF Authenticate, BeginReset, BeginLogout
  <2>2. /\ req'[r].pc \in {"login", "reset", "logout"}
        /\ \A s \in Requests \ {r} : req'[s] = req[s]
    <3>1. now \in Nat /\ 0 \in Nat /\ {} \in SUBSET Jtis /\ \A t \in Jtis : {t} \in SUBSET Jtis
      BY SessionFacts
    <3>2. CASE Goto(r, "login", 0, {}, {}) \/ Goto(r, "reset", 0, {}, {})
      BY <1>0, <3>1, <3>2, Went
    <3>3. CASE \E t \in Jtis : Goto(r, "logout", now, {t}, {})
      BY <1>0, <3>1, <3>3, Went
    <3>4. QED BY <2>1, <3>2, <3>3
  <2>3. QED BY <1>1, <2>1, <2>2 DEF Owes
<1>3. ASSUME NEW r \in Requests, Register(r) PROVE Good
  <2>1. PICK t \in Jtis :
             /\ t \notin Issued /\ Issued' = Issued \cup {t}
             /\ \A u \in Issued : token'[u] = token[u]
             /\ token'[t].exp = Expiry
             /\ registered' = registered \cup {t}
             /\ Goto(r, "renew", 0, {t}, {})
    BY <1>0, <1>3, Registers
  <2>2. UNCHANGED <<now, held, keyEnds, blocked, revoked>>
    BY <1>3 DEF Register
  <2>3. req'[r].pc = "renew" /\ \A s \in Requests \ {r} : req'[s] = req[s]
    <3>1. {t} \in SUBSET Jtis /\ {} \in SUBSET Jtis /\ 0 \in Nat
      OBVIOUS
    <3>2. QED BY <1>0, <2>1, <3>1, Went
  <2>4. KeyOK'
    <3>1. \A u \in Issued' : token'[u].exp <= now + Lifetime * Second
      BY <2>1, SessionFacts, ExpiryBound DEF SessionInv, KeyOK
    <3>2. held \cap registered' = held \cap registered /\ registered' # {}
      BY <2>1, SessionFacts
    <3>3. \A u \in held \cap registered' : keyEnds = 0 \/ token'[u].exp < keyEnds
      BY <2>1, <3>2, SessionFacts DEF SessionInv, KeyOK
    <3>4. QED BY <2>2, <3>1, <3>2, <3>3 DEF KeyOK
  <2>5. Owes(r)'
    BY <2>3 DEF Owes
  <2>6. QED BY <2>1, <2>2, <2>3, <2>4, <2>5, StaysGood, SessionFacts
<1>4. ASSUME NEW r \in Requests, Finish(r)
      PROVE  Owes(r)' /\ \A s \in Requests \ {r} : req'[s] = req[s]
  BY <1>0, <1>4, IdleType, Moved DEF Finish, Owes
<1>5. ASSUME NEW r \in Requests, Renew(r) PROVE Good
  <2>1. /\ keyEnds' = Renewed /\ held' = held \cup req[r].todo /\ Finish(r)
        /\ UNCHANGED <<now, password, token, registered, blocked, revoked>>
    BY <1>5 DEF Renew
  <2>2. /\ Issued' = Issued
        /\ \A t \in Issued : token[t].exp <= now + Lifetime * Second
        /\ registered = {} => keyEnds = 0
    BY <2>1 DEF Issued, SessionInv, KeyOK
  <2>3. ASSUME registered = {} PROVE KeyOK'
    <3>1. registered' = {} /\ keyEnds' = 0
      BY <2>1, <2>2, <2>3 DEF Renewed
    <3>2. \A t \in Issued' : token'[t].exp <= now' + Lifetime * Second
      BY <2>1, <2>2
    <3>3. QED BY <3>1, <3>2 DEF KeyOK
  <2>4. ASSUME registered # {} PROVE KeyOK'
    <3>1. keyEnds' = now + (Lifetime + Slack) * Second
      BY <2>1, <2>4 DEF Renewed
    <3>2. ASSUME NEW a \in Nat, NEW b \in Nat \ {0}, NEW c \in Nat \ {0}
          PROVE  a * c \in Nat /\ (a + b) * c \in Nat /\ a * c < (a + b) * c
      OBVIOUS
    <3>3. now + Lifetime * Second < keyEnds'
      BY <3>1, <3>2, SessionFacts, TimeAssumption
    <3>4. Lifetime * Second \in Nat /\ keyEnds' \in Nat
      BY <1>0, <3>2, TimeAssumption DEF TypeInv, TypeOK
    <3>5. \A t \in Issued : token[t].exp < keyEnds'
      <4>1. ASSUME NEW e \in Nat, NEW l \in Nat, NEW n \in Nat, NEW k \in Nat,
                   e <= n + l, n + l < k
            PROVE  e < k
        BY <4>1
      <4>2. now \in Nat /\ \A t \in Issued : token[t].exp \in Nat
        BY SessionFacts
      <4>3. QED BY <2>2, <3>3, <3>4, <4>1, <4>2
    <3>6. QED BY <2>1, <2>2, <2>4, <3>5, SessionFacts DEF KeyOK
  <2>5. KeyOK'
    BY <2>3, <2>4
  <2>6. QED BY <1>4, <2>1, <2>5, StaysGood, SessionFacts
<1>6. ASSUME NEW r \in Requests, Logout(r) PROVE Good
  <2>1. PICK t \in req[r].todo, at \in Since(r) : blocked' = Blocked(t, Ttl(token[t].exp, at))
    BY <1>6 DEF Logout
  <2>2. /\ revoked' = revoked \cup req[r].todo /\ Finish(r) /\ req[r].pc = "logout"
        /\ UNCHANGED <<now, token, held, registered, keyEnds>>
    BY <1>6 DEF Logout
  <2>3. t \in Issued /\ at \in Nat /\ at <= now /\ req[r].todo = {t}
    BY <2>1, <2>2, SessionFacts DEF Since
  <2>4. /\ Dead(t)' /\ blocked' \in [Jtis -> Nat]
        /\ \A u \in Jtis : blocked'[u] = blocked[u] \/ (u = t /\ blocked'[u] + Second > token[u].exp)
    BY <1>0, <2>1, <2>2, <2>3, BlockKills
  <2>5. KeyOK'
    BY <2>2 DEF SessionInv, KeyOK, Issued
  <2>6. /\ \A u \in revoked : Dead(u)'
        /\ \A s \in Requests : req'[s] = req[s] => Owes(s)'
    BY <2>2, <2>4, StaysGood, SessionFacts
  <2>7. \A u \in revoked' : Dead(u)'
    BY <2>2, <2>3, <2>4, <2>6
  <2>8. QED BY <1>4, <2>2, <2>5, <2>6, <2>7
<1>7. ASSUME NEW r \in Requests, SavePassword(r) PROVE Good
  <2>1. /\ Goto(r, "scan", now, {}, held \cap registered)
        /\ UNCHANGED <<now, token, held, registered, keyEnds, blocked, revoked>>
    BY <1>7 DEF SavePassword
  <2>2. /\ req'[r].pc = "scan" /\ req'[r].owed = held \cap registered
        /\ \A s \in Requests \ {r} : req'[s] = req[s]
    <3>1. now \in Nat /\ {} \in SUBSET Jtis /\ held \cap registered \in SUBSET Jtis
      BY SessionFacts
    <3>2. QED BY <1>0, <2>1, <3>1, Went DEF Goto
  <2>3. Owes(r)'
    BY <2>1, <2>2 DEF Owes
  <2>4. QED BY <1>1, <2>1, <2>2, <2>3
<1>8. ASSUME NEW r \in Requests, Scan(r) PROVE Good
  <2>1. PICK at \in Since(r) : Goto(r, "block", at, StillValid(at), req[r].owed)
    BY <1>8 DEF Scan
  <2>2. /\ req[r].pc = "scan"
        /\ UNCHANGED <<now, token, held, registered, keyEnds, blocked, revoked>>
    BY <1>8 DEF Scan
  <2>3. at \in Nat /\ at <= now /\ StillValid(at) \in SUBSET Jtis /\ req[r].owed \in SUBSET Jtis
    BY SessionFacts DEF Since, StillValid
  <2>4. /\ req'[r].pc = "block" /\ req'[r].todo = StillValid(at) /\ req'[r].owed = req[r].owed
        /\ \A s \in Requests \ {r} : req'[s] = req[s]
    BY <1>0, <2>1, <2>3, WentToBlock
  <2>5. ASSUME NEW t \in req[r].owed PROVE t \in StillValid(at) \/ Dead(t)
    <3>1. t \in registered \/ Dead(t)
      BY <2>2 DEF SessionInv, Owes
    <3>2. t \in Issued /\ token[t].exp \in Nat /\ now \in Nat
      BY SessionFacts
    <3>3. t \in registered /\ t \notin StillValid(at) => token[t].exp <= now
      BY <2>3, <3>2 DEF StillValid
    <3>4. QED BY <1>0, <3>1, <3>2, <3>3, ExpiredIsDead
  <2>6. Owes(r)'
    BY <2>2, <2>4, <2>5 DEF Owes, Dead
  <2>7. QED BY <1>1, <2>2, <2>4, <2>6
<1>9. ASSUME NEW r \in Requests, Block(r) PROVE Good
  <2>1. PICK t \in req[r].todo :
           /\ blocked' = Blocked(t, Ttl(token[t].exp, req[r].at))
           /\ Goto(r, "block", req[r].at, req[r].todo \ {t}, req[r].owed)
    BY <1>9 DEF Block
  <2>2. req[r].pc = "block" /\ UNCHANGED <<now, token, held, registered, keyEnds, revoked>>
    BY <1>9 DEF Block
  <2>3. /\ t \in Issued /\ req[r].at \in Nat /\ req[r].at <= now /\ req[r].owed \subseteq Issued
        /\ req[r].todo \ {t} \in SUBSET Jtis /\ req[r].owed \in SUBSET Jtis
    BY SessionFacts
  <2>4. /\ Dead(t)' /\ blocked' \in [Jtis -> Nat]
        /\ \A u \in Jtis : blocked'[u] = blocked[u] \/ (u = t /\ blocked'[u] + Second > token[u].exp)
    BY <1>0, <2>1, <2>2, <2>3, BlockKills
  <2>5. KeyOK'
    BY <2>2 DEF SessionInv, KeyOK, Issued
  <2>6. /\ \A u \in Issued : Dead(u) => Dead(u)'
        /\ \A u \in revoked : Dead(u)'
        /\ \A s \in Requests : req'[s] = req[s] => Owes(s)'
    BY <2>2, <2>4, StaysGood, SessionFacts
  <2>7. /\ req'[r].pc = "block" /\ req'[r].todo = req[r].todo \ {t} /\ req'[r].owed = req[r].owed
        /\ \A s \in Requests \ {r} : req'[s] = req[s]
    BY <1>0, <2>1, <2>3, WentToBlock
  <2>8. Owes(r)'
    <3>1. \A u \in req[r].owed : u \in req[r].todo \/ Dead(u)
      BY <2>2 DEF SessionInv, Owes
    <3>2. \A u \in req[r].owed : u \in req[r].todo \ {t} \/ Dead(u)'
      BY <2>3, <2>4, <2>6, <3>1
    <3>3. QED BY <2>7, <3>2 DEF Owes
  <2>9. QED BY <2>2, <2>5, <2>6, <2>7, <2>8
<1>10. ASSUME NEW r \in Requests, Answer(r) PROVE Good
  <2>1. /\ registered' = Purged(req[r].at) /\ keyEnds' = (IF registered' = {} THEN 0 ELSE keyEnds)
        /\ revoked' = revoked \cup req[r].owed /\ Finish(r)
        /\ req[r].pc = "block" /\ req[r].todo = {}
        /\ UNCHANGED <<now, password, token, held, blocked>>
    BY <1>10 DEF Answer
  <2>2. KeyOK'
    BY <2>1 DEF SessionInv, KeyOK, Issued, Purged
  <2>3. ASSUME NEW t \in registered PROVE t \in registered' \/ Dead(t)
    <3>1. t \in Issued /\ token[t].exp \in Nat /\ req[r].at \in Nat /\ req[r].at <= now /\ now \in Nat
      BY SessionFacts
    <3>2. t \in registered' \/ token[t].exp <= now
      BY <2>1, <3>1 DEF Purged
    <3>3. QED BY <1>0, <3>1, <3>2, ExpiredIsDead
  <2>4. /\ \A u \in Issued : Dead(u) => Dead(u)'
        /\ \A u \in revoked : Dead(u)'
        /\ \A s \in Requests : req'[s] = req[s] => Owes(s)'
    BY <2>1, <2>3, StaysGood, SessionFacts
  <2>5. \A u \in req[r].owed : Dead(u) /\ u \in Issued
    BY <2>1, SessionFacts DEF SessionInv, Owes
  <2>6. QED BY <1>4, <2>1, <2>2, <2>4, <2>5
<1>11. ASSUME NEW r \in Requests, Crash(r) PROVE Good
  BY <1>1, <1>4, <1>11 DEF Crash
<1>12. CASE Tick
  <2>1. /\ now' = now + 1 /\ UNCHANGED <<password, token, held, blocked, revoked, req>>
        /\ registered' = (IF keyEnds = now + 1 THEN {} ELSE registered)
        /\ keyEnds' = (IF keyEnds = now + 1 THEN 0 ELSE keyEnds)
    BY <1>12 DEF Tick
  <2>2. KeyOK'
    <3>1. Lifetime * Second \in Nat
      BY TimeAssumption
    <3>2. \A t \in Issued : token[t].exp <= now + 1 + Lifetime * Second
      BY <3>1, SessionFacts DEF SessionInv, KeyOK
    <3>3. Issued' = Issued
      BY <2>1 DEF Issued
    <3>4. QED BY <2>1, <3>2, <3>3 DEF SessionInv, KeyOK
  <2>3. now' \in Nat /\ now <= now'
    BY <2>1, SessionFacts
  <2>4. /\ \A u \in Issued : Dead(u) => Dead(u)'
        /\ \A u \in revoked : Dead(u)'
    BY <2>1, <2>3, StaysGood, SessionFacts
  <2>5. ASSUME NEW r \in Requests PROVE Owes(r)'
    <3>1. Owes(r) /\ req[r].owed \subseteq Issued /\ req'[r] = req[r]
      BY <2>1, SessionFacts DEF SessionInv
    <3>2. CASE keyEnds # now + 1
      BY <2>1, <2>4, <3>1, <3>2 DEF Owes
    <3>3. CASE keyEnds = now + 1
      <4>1. \A t \in held \cap registered : Dead(t)
        BY <3>3, SessionFacts, TimeAssumption DEF SessionInv, KeyOK, Dead
      <4>2. \A t \in held \cap registered : Dead(t)'
        BY <2>4, <4>1, SessionFacts
      <4>3. QED BY <2>1, <2>4, <3>1, <4>2 DEF Owes
    <3>4. QED BY <3>2, <3>3
  <2>6. QED BY <2>1, <2>2, <2>4, <2>5
<1>13. CASE UNCHANGED vars
  BY <1>13 DEF vars, SessionInv, KeyOK, Owes, Dead, Issued
<1>14. QED
  BY <1>2, <1>3, <1>5, <1>6, <1>7, <1>8, <1>9, <1>10, <1>11, <1>12, <1>13 DEF Next

LEMMA SessionHolds == Spec => []SessionInv
BY InitSession, SessionStep, PTL DEF Spec

(* No step forgets a token that the user holds and that is live.  Only the *)
(* clock and the clean-up after a reset remove tokens; the key outlives    *)
(* the tokens in it that reached the user, for it was renewed for more     *)
(* than a lifetime when the last of them did.                              *)
THEOREM NothingForgotten == Spec => NoLiveTokenForgotten
<1>1. ASSUME SessionInv, [Next]_vars
      PROVE  [\A t \in held \cap registered : Live(t)' => t \in registered']_vars
  <2>1. SUFFICES ASSUME Next, NEW t \in held, t \in registered, Live(t)' PROVE t \in registered'
    BY <1>1
  <2>2. t \in Issued /\ token[t].exp \in Nat /\ now \in Nat
    BY <1>1, <2>1, SessionFacts
  <2>3. ASSUME NEW r \in Requests, Register(r) PROVE t \in registered'
    BY <2>1, <2>3 DEF Register
  <2>4. ASSUME NEW r \in Requests, Answer(r) PROVE t \in registered'
    <3>1. req[r].at \in Nat /\ req[r].at <= now
      BY <1>1, SessionFacts
    <3>2. now < token[t].exp /\ registered' = Purged(req[r].at)
      BY <2>1, <2>4 DEF Answer, Live
    <3>3. QED BY <2>1, <2>2, <3>1, <3>2 DEF Purged
  <2>5. ASSUME NEW r \in Requests,
               \/ Authenticate(r) \/ Renew(r) \/ \E u \in Jtis : BeginLogout(r, u)
               \/ Logout(r) \/ BeginReset(r) \/ SavePassword(r) \/ Scan(r) \/ Block(r) \/ Crash(r)
        PROVE  t \in registered'
    <3>1. registered' = registered
      BY <2>5 DEF Authenticate, Renew, BeginLogout, Logout, BeginReset, SavePassword, Scan, Block,
                  Crash
    <3>2. QED BY <2>1, <3>1
  <2>6. CASE Tick
    <3>1. now' = now + 1 /\ token' = token /\ registered' = (IF keyEnds = now + 1 THEN {} ELSE registered)
      BY <2>6 DEF Tick
    <3>2. now + 1 < token[t].exp
      BY <2>1, <3>1 DEF Live
    <3>3. keyEnds # now + 1
      BY <1>1, <2>1, <2>2, <3>2 DEF SessionInv, KeyOK
    <3>4. QED BY <2>1, <3>1, <3>3
  <2>7. QED BY <2>1, <2>3, <2>4, <2>5, <2>6 DEF Next
<1>2. QED BY <1>1, SessionHolds, PTL DEF Spec, NoLiveTokenForgotten
-------------------------------------------------------------------------------
(* Every block there is ends less than a second before its token, and none *)
(* waits for a token that is yet to be issued.                             *)
BlockOK ==
    /\ \A t \in Issued : blocked[t] # 0 => blocked[t] + Second > token[t].exp
    /\ \A t \in Jtis \ Issued : blocked[t] = 0

LEMMA BlockStep == SessionInv /\ BlockOK /\ [Next]_vars => BlockOK'
<1> SUFFICES ASSUME SessionInv, BlockOK, [Next]_vars PROVE BlockOK'
  OBVIOUS
<1>0. TypeInv
  BY DEF SessionInv
<1>1. ASSUME UNCHANGED <<token, blocked>> PROVE BlockOK'
  BY <1>1 DEF BlockOK, Issued
<1>2. ASSUME NEW t \in Issued, NEW at \in Nat, at <= now,
             blocked' = Blocked(t, Ttl(token[t].exp, at)), UNCHANGED <<now, token>>
      PROVE  BlockOK'
  <2>1. \A u \in Jtis : blocked'[u] = blocked[u] \/ (u = t /\ blocked'[u] + Second > token[u].exp)
    BY <1>0, <1>2, BlockKills
  <2>2. Issued' = Issued /\ t \in Issued
    BY <1>2 DEF Issued
  <2>3. QED BY <1>2, <2>1, <2>2, SessionFacts DEF BlockOK
<1>3. ASSUME NEW r \in Requests, Logout(r) PROVE BlockOK'
  <2>1. PICK t \in req[r].todo, at \in Since(r) : blocked' = Blocked(t, Ttl(token[t].exp, at))
    BY <1>3 DEF Logout
  <2>2. t \in Issued /\ at \in Nat /\ at <= now /\ UNCHANGED <<now, token>>
    BY <1>3, <2>1, SessionFacts DEF Since, Logout
  <2>3. QED BY <1>2, <2>1, <2>2
<1>4. ASSUME NEW r \in Requests, Block(r) PROVE BlockOK'
  <2>1. PICK t \in req[r].todo : blocked' = Blocked(t, Ttl(token[t].exp, req[r].at))
    BY <1>4 DEF Block
  <2>2. t \in Issued /\ req[r].at \in Nat /\ req[r].at <= now /\ UNCHANGED <<now, token>>
    BY <1>4, <2>1, SessionFacts DEF Block
  <2>3. QED BY <1>2, <2>1, <2>2
<1>5. ASSUME NEW r \in Requests, Register(r) PROVE BlockOK'
  <2>1. PICK t \in Jtis :
             /\ t \notin Issued /\ Issued' = Issued \cup {t}
             /\ \A u \in Issued : token'[u] = token[u]
    BY <1>0, <1>5, Registers
  <2>2. blocked' = blocked
    BY <1>5 DEF Register
  <2>3. QED BY <2>1, <2>2 DEF BlockOK
<1>6. ASSUME NEW r \in Requests,
             \/ Authenticate(r) \/ Renew(r) \/ \E t \in Jtis : BeginLogout(r, t)
             \/ BeginReset(r) \/ SavePassword(r) \/ Scan(r) \/ Answer(r) \/ Crash(r)
      PROVE  BlockOK'
  BY <1>1, <1>6 DEF Authenticate, Renew, BeginLogout, BeginReset, SavePassword, Scan, Answer, Crash
<1>7. CASE Tick
  BY <1>1, <1>7 DEF Tick
<1>8. CASE UNCHANGED vars
  BY <1>1, <1>8 DEF vars
<1>9. QED BY <1>3, <1>4, <1>5, <1>6, <1>7, <1>8 DEF Next

(* A token that a logout or a reset has revoked with success, or blocked   *)
(* before it died, is refused from then on, until the last fraction of its *)
(* life: each setex is computed from a clock read before, so a block ends  *)
(* late enough however long the request was delayed, and also when an      *)
(* overlapping request has set it anew; and a token that a reset owes is   *)
(* either still known to Redis, yet to be blocked, or dead                 *)
(* (TokenBlocklistService).                                                *)
THEOREM RevokedIsDead == Spec => []RevokedStaysDead
<1>1. Init => BlockOK
  BY DEF Init, BlockOK, Issued, Jtis
<1>2. ASSUME SessionInv, BlockOK PROVE RevokedStaysDead
  <2>1. SUFFICES ASSUME NEW t \in DOMAIN token, t \in revoked \/ blocked[t] # 0,
                        now + Second <= token[t].exp
                 PROVE  ~Usable(t)
    BY DEF RevokedStaysDead
  <2>2. t \in Issued
    BY <2>1 DEF Issued
  <2>3. /\ now \in Nat /\ token[t].exp \in Nat /\ blocked[t] \in Nat /\ Second \in Nat
        /\ t \in Jtis
    BY <1>2, <2>2, SessionFacts, TimeAssumption
  <2>4. CASE t \in revoked
    <3>1. Dead(t)
      BY <1>2, <2>4 DEF SessionInv
    <3>2. QED BY <2>1, <2>3, <3>1 DEF Dead, Usable
  <2>5. CASE blocked[t] # 0
    <3>1. blocked[t] + Second > token[t].exp
      BY <1>2, <2>2, <2>5 DEF BlockOK
    <3>2. QED BY <2>1, <2>3, <3>1 DEF Usable
  <2>6. QED BY <2>1, <2>4, <2>5
<1>3. QED BY <1>1, <1>2, BlockStep, SessionHolds, PTL DEF Spec
===============================================================================
