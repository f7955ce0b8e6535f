-------------------------------- MODULE Access --------------------------------
(***************************************************************************)
(* The credentials of one tenant and the guard every API call passes: the  *)
(* HMAC guard with its time window, nonces and rate limit, the cron guard, *)
(* and the operations of the credential administration.                    *)
(*                                                                         *)
(* Code: integration-credentials.use-case.ts, integration-hmac.guard.ts,   *)
(* cron-hmac.guard.ts, cron-nonce.store.ts, purgeNonces of the             *)
(* orchestrator, scripts/bootstrap-admin.ts.                               *)
(*                                                                         *)
(* A message is one signed HTTP call; the network may deliver it more than *)
(* once and late.  A handler is one running call; handlers interleave at   *)
(* every query, and the repository's update() is two of them: it reads the *)
(* row and later writes it back merged.  Messages carry correct signatures *)
(* (a wrong one is refused without a trace); a step of the clock is one    *)
(* second.                                                                 *)
(***************************************************************************)
EXTENDS Naturals, Sequences, FiniteSets

CONSTANTS
  Creds,     \* ids of integration_credentials rows
  Messages,  \* signed calls; each stands for its nonce
  Handlers,  \* calls being served at the same time
  NoCred, NoMsg,
  Window,    \* INTEGRATION_HMAC_WINDOW_SECONDS (300), also the cron guard's
  Grace,     \* ROTATION_GRACE_MS (24 h)
  RateWindow, Limit,  \* INTEGRATION_RATE_LIMIT_PER_MIN: Limit calls in RateWindow
  MaxTime,   \* bound on the clock
  Overlap    \* whether two calls may be changing credentials at the same time

ASSUME AccessAssumption ==
  /\ NoCred \notin Creds /\ NoMsg \notin Messages
  /\ Window \in Nat \ {0} /\ Grace \in Nat /\ RateWindow \in Nat
  /\ Limit \in Nat \ {0} /\ MaxTime \in Nat
  /\ Overlap \in BOOLEAN

VARIABLES
  now,      \* the clock, in seconds
  cred,     \* integration_credentials
  msg,      \* what each message says once it is sent
  nonce,    \* integration_nonces and cron_nonces: expiry, 0 if there is no row
  stamps,   \* per credential, the guard's requestTimestamps
  call,     \* per handler, the message it serves and what it remembers
  served    \* history: per message, the times at which a guard let it pass

vars == <<now, cred, msg, nonce, stamps, call, served>>
-----------------------------------------------------------------------------
(* Data *)

\* No expiry: later than any time of the model.
Never == MaxTime + Grace + 1

\* Only admin credentials can hold credentials:write; type stands for the
\* permissions.
Cred == [type: {"none", "api", "admin"}, status: {"none", "active", "revoked"},
         expires: 0..Never]
NoRow == [type |-> "none", status |-> "none", expires |-> Never]

Admin == {"create", "rotate", "revoke"}
Ops == {"use", "cron"} \cup Admin
Msg == [op: Ops \cup {"none"}, actor: Creds \cup {NoCred}, target: Creds \cup {NoCred},
        ts: 0..MaxTime]
Unsent == [op |-> "none", actor |-> NoCred, target |-> NoCred, ts |-> 0]

\* copy is the credential the handler read, until the expiry rotate computed.
\* touch is the update of lastUsedAt, which runs beside the handler, and old the
\* row it read.
Call == [pc: {"idle", "nonce", "insert", "limit", "use", "create", "rotate", "rotated",
              "limitOld", "limiting", "revoke", "check", "revoking", "revoked"},
         msg: Messages \cup {NoMsg}, copy: Cred, until: 0..Never,
         touch: {"none", "read", "write"}, old: Cred]
IdleCall == [pc |-> "idle", msg |-> NoMsg, copy |-> NoRow, until |-> 0,
             touch |-> "none", old |-> NoRow]

ActiveAdmins == {c \in Creds : cred[c].type = "admin" /\ cred[c].status = "active"}
Free == {c \in Creds : cred[c].status = "none"}

Init ==
  /\ now = 0
  /\ cred = [c \in Creds |-> NoRow]
  /\ msg = [m \in Messages |-> Unsent]
  /\ nonce = [m \in Messages |-> 0]
  /\ stamps = [c \in Creds |-> <<>>]
  /\ call = [h \in Handlers |-> IdleCall]
  /\ served = [m \in Messages |-> <<>>]
-----------------------------------------------------------------------------
(* Time, clients and the purge *)

\* One second.  Window seconds are far longer than the two queries between a
\* handler's look at the window and its rate limit: with the small
\* Window of a model, that handler is waited for.
Tick ==
  /\ now < MaxTime
  /\ \A h \in Handlers : call[h].pc \notin {"nonce", "insert", "limit"}
  /\ now' = now + 1
  /\ UNCHANGED <<cred, msg, nonce, stamps, call, served>>

\* A client signs a call with its own clock, which is not ahead of the server's.
Send(m, op, actor, target) ==
  /\ msg[m].op = "none"
  /\ op = "cron" <=> actor = NoCred
  /\ op \in {"rotate", "revoke"} <=> target # NoCred
  /\ \A c \in {actor, target} \ {NoCred} : cred[c].status # "none"
  /\ msg' = [msg EXCEPT ![m] = [op |-> op, actor |-> actor, target |-> target, ts |-> now]]
  /\ UNCHANGED <<now, cred, nonce, stamps, call, served>>

\* purgeNonces, at the end of each tick of the worker.  Rows expire in the middle
\* of a second, so one that expires in this second may be gone; the window is
\* counted in whole seconds.
purgeNonces ==
  /\ \E m \in Messages : msg[m].op # "cron" /\ nonce[m] \in 1..now
  /\ nonce' = [m \in Messages |->
       IF msg[m].op # "cron" /\ nonce[m] <= now THEN 0 ELSE nonce[m]]
  /\ UNCHANGED <<now, cred, msg, stamps, call, served>>
-----------------------------------------------------------------------------
(* The guards *)

InWindow(m) == now - msg[m].ts <= Window

Usable(c) == cred[c].status = "active" /\ cred[c].expires > now

\* A handler that is done keeps its message while lastUsedAt is being updated.
After(h, step) ==
  IF step = "idle" /\ call[h].touch = "none" THEN IdleCall ELSE [call[h] EXCEPT !.pc = step]
Goto(h, step) == call' = [call EXCEPT ![h] = After(h, step)]
Finish(h) == Goto(h, "idle")

\* canActivate: the credential is looked up and checked, then the window and
\* the signature.
Receive(h, m) ==
  /\ call[h] = IdleCall
  /\ msg[m].op \notin {"none", "cron"}
  /\ Usable(msg[m].actor) /\ InWindow(m)
  /\ call' = [call EXCEPT ![h] =
       [pc |-> "nonce", msg |-> m, copy |-> cred[msg[m].actor], until |-> 0,
        touch |-> "none", old |-> NoRow]]
  /\ UNCHANGED <<now, cred, msg, nonce, stamps, served>>

\* consumeNonce: a lookup ...
FindNonce(h) ==
  /\ call[h].pc = "nonce"
  /\ IF nonce[call[h].msg] # 0 THEN Finish(h) ELSE Goto(h, "insert")
  /\ UNCHANGED <<now, cred, msg, nonce, stamps, served>>

\* Mutant: the insert overwrites instead of failing.
InsertNonceUpsert(h) ==
  /\ call[h].pc = "insert"
  /\ nonce' = [nonce EXCEPT ![call[h].msg] = now + Window]
  /\ Goto(h, "limit")
  /\ UNCHANGED <<now, cred, msg, stamps, served>>

\* ... and an insert that the unique index refuses to the second of two.
InsertNonce(h) ==
  LET m == call[h].msg IN
  /\ call[h].pc = "insert"
  /\ IF nonce[m] # 0
       THEN Finish(h) /\ UNCHANGED nonce
       ELSE nonce' = [nonce EXCEPT ![m] = now + Window] /\ Goto(h, "limit")
  /\ UNCHANGED <<now, cred, msg, stamps, served>>

\* What enforceRateLimit keeps of the timestamps.
Recent(c) == SelectSeq(stamps[c], LAMBDA t : now - t < RateWindow)

\* enforceRateLimit, permissions and tenant: no query in between.
Admit(h) ==
  LET m == call[h].msg  c == msg[m].actor
      granted == msg[m].op \in Admin => call[h].copy.type = "admin"
  IN
  /\ call[h].pc = "limit"
  /\ IF Len(Recent(c)) >= Limit
       THEN /\ stamps' = [stamps EXCEPT ![c] = Recent(c)]
            /\ Finish(h) /\ UNCHANGED served
       ELSE /\ stamps' = [stamps EXCEPT ![c] = Append(Recent(c), now)]
            /\ IF granted
                 THEN /\ served' = [served EXCEPT ![m] = Append(@, now)]
                      /\ call' = [call EXCEPT ![h].pc = msg[m].op, ![h].touch = "read"]
                 ELSE Finish(h) /\ UNCHANGED served
  /\ UNCHANGED <<now, cred, msg, nonce>>

\* Whether no call is between the reads and the write that change a
\* credential; with Overlap, nobody looks.
Alone ==
  Overlap \/ \A g \in Handlers :
    /\ call[g].touch # "write"
    /\ call[g].pc \notin {"rotated", "limitOld", "limiting", "check", "revoking", "revoked"}

\* Mutant: the update of lastUsedAt carries the status the guard saw.
TouchReadStatus(h) ==
  /\ call[h].touch = "read" /\ Alone
  /\ call' = [call EXCEPT ![h].touch = "write",
       ![h].old = [cred[msg[call[h].msg].actor] EXCEPT !.status = call[h].copy.status]]
  /\ UNCHANGED <<now, cred, msg, nonce, stamps, served>>

\* The update of lastUsedAt nobody waits for: it reads the row ...
TouchRead(h) ==
  /\ call[h].touch = "read" /\ Alone
  /\ call' = [call EXCEPT ![h].touch = "write", ![h].old = cred[msg[call[h].msg].actor]]
  /\ UNCHANGED <<now, cred, msg, nonce, stamps, served>>

\* ... and writes it back.
TouchWrite(h) ==
  /\ call[h].touch = "write"
  /\ cred' = [cred EXCEPT ![msg[call[h].msg].actor] = call[h].old]
  /\ call' = [call EXCEPT ![h] = IF @.pc = "idle" THEN IdleCall
                                  ELSE [@ EXCEPT !.touch = "none", !.old = NoRow]]
  /\ UNCHANGED <<now, msg, nonce, stamps, served>>

\* The nonce store drops what has expired and inserts, unless the nonce is kept.
tryConsume(m) ==
  LET kept == [n \in Messages |-> IF msg[n].op = "cron" /\ nonce[n] < now THEN 0 ELSE nonce[n]] IN
  [new |-> kept[m] = 0, nonces |-> IF kept[m] = 0 THEN [kept EXCEPT ![m] = now + Window] ELSE kept]

\* CronHmacGuard: the signed call runs if its nonce is new.
CronCall(m) ==
  /\ msg[m].op = "cron" /\ InWindow(m)
  /\ nonce' = tryConsume(m).nonces
  /\ served' = IF tryConsume(m).new THEN [served EXCEPT ![m] = Append(@, now)] ELSE served
  /\ UNCHANGED <<now, cred, msg, stamps, call>>
-----------------------------------------------------------------------------
(* Credential administration *)

Target(h) == msg[call[h].msg].target

\* A call that needs no credential change (issuing, reading).
Use(h) ==
  /\ call[h].pc = "use"
  /\ Finish(h)
  /\ UNCHANGED <<now, cred, msg, nonce, stamps, served>>

NewCred(c, type, expires) ==
  cred' = [cred EXCEPT ![c] = [type |-> type, status |-> "active", expires |-> expires]]

\* create: any type, with or without expiresInDays (one day is Grace here).
Create(h) ==
  /\ call[h].pc = "create"
  /\ \E c \in Free, type \in {"api", "admin"}, expires \in {now + Grace, Never} :
       NewCred(c, type, expires)
  /\ Finish(h)
  /\ UNCHANGED <<now, msg, nonce, stamps, served>>

\* The grace period or the previous expiry, whichever comes first.
effectiveExpiry(old) == IF old.expires < now + Grace THEN old.expires ELSE now + Grace

\* rotate: reads the old credential and computes its last day ...
Rotate(h) ==
  /\ call[h].pc = "rotate" /\ Alone
  /\ call' = [call EXCEPT ![h].pc = "rotated", ![h].copy = cred[Target(h)],
                          ![h].until = effectiveExpiry(cred[Target(h)])]
  /\ UNCHANGED <<now, cred, msg, nonce, stamps, served>>

\* ... creates the new one, unless the old one had no permission but dte:cancel ...
RotateCreate(h) ==
  /\ call[h].pc = "rotated"
  /\ \/ (\E c \in Free : NewCred(c, call[h].copy.type, Never)) /\ Goto(h, "limitOld")
     \/ Finish(h) /\ UNCHANGED cred
  /\ UNCHANGED <<now, msg, nonce, stamps, served>>

\* ... and limits the old one, whose status stays as it is.
RotateLimit(h) ==
  /\ call[h].pc = "limiting"
  /\ cred' = [cred EXCEPT ![Target(h)] = [call[h].copy EXCEPT !.expires = call[h].until]]
  /\ Finish(h)
  /\ UNCHANGED <<now, msg, nonce, stamps, served>>

\* update() of rotate and of revoke reads the row it will write back.
ReadRow(h) ==
  /\ call[h].pc \in {"limitOld", "revoking"}
  /\ call' = [call EXCEPT ![h].pc = IF @ = "limitOld" THEN "limiting" ELSE "revoked",
                          ![h].copy = cred[Target(h)]]
  /\ UNCHANGED <<now, cred, msg, nonce, stamps, served>>

\* revoke: reads the credential ...
Revoke(h) ==
  /\ call[h].pc = "revoke" /\ Alone
  /\ call' = [call EXCEPT ![h].copy = cred[Target(h)], ![h].pc =
       IF cred[Target(h)].type = "admin" /\ cred[Target(h)].status = "active"
         THEN "check" ELSE "revoking"]
  /\ UNCHANGED <<now, cred, msg, nonce, stamps, served>>

\* Mutant: nothing keeps the last one.
CheckedNothing(h) == TRUE

\* An active admin must not be the last one nor revoke itself.
Checked(h) == Cardinality(ActiveAdmins) > 1 /\ Target(h) # msg[call[h].msg].actor

RevokeCheck(h) ==
  /\ call[h].pc = "check"
  /\ Goto(h, IF Checked(h) THEN "revoking" ELSE "idle")
  /\ UNCHANGED <<now, cred, msg, nonce, stamps, served>>

\* The row is written back with its new status.
RevokeWrite(h) ==
  /\ call[h].pc = "revoked"
  /\ cred' = [cred EXCEPT ![Target(h)] = [call[h].copy EXCEPT !.status = "revoked"]]
  /\ Finish(h)
  /\ UNCHANGED <<now, msg, nonce, stamps, served>>

\* The process dies between two queries; the rate limiter forgets everything.
Crash(h) ==
  /\ call[h].pc \in {"insert", "limitOld", "check", "revoking"}
  /\ call' = [call EXCEPT ![h] = IdleCall]
  /\ stamps' = [c \in Creds |-> <<>>]
  /\ UNCHANGED <<now, cred, msg, nonce, served>>

\* scripts/bootstrap-admin.ts, under the tenant's advisory lock.
Bootstrap(c) ==
  /\ c \in Free /\ ActiveAdmins = {}
  /\ NewCred(c, "admin", Never)
  /\ UNCHANGED <<now, msg, nonce, stamps, call, served>>
-----------------------------------------------------------------------------
Handle(h) ==
  \/ \E m \in Messages : Receive(h, m)
  \/ FindNonce(h) \/ InsertNonce(h) \/ Admit(h) \/ TouchRead(h) \/ TouchWrite(h)
  \/ Use(h) \/ Create(h) \/ Rotate(h) \/ RotateCreate(h) \/ ReadRow(h) \/ RotateLimit(h)
  \/ Revoke(h) \/ RevokeCheck(h) \/ RevokeWrite(h) \/ Crash(h)

Next ==
  \/ Tick \/ purgeNonces
  \/ \E m \in Messages, op \in Ops, actor, target \in Creds \cup {NoCred} :
       Send(m, op, actor, target)
  \/ \E m \in Messages : CronCall(m)
  \/ \E c \in Creds : Bootstrap(c)
  \/ \E h \in Handlers : Handle(h)

Spec == Init /\ [][Next]_vars
-----------------------------------------------------------------------------
(* Properties *)

\* Types of the credentials, messages, nonces and handlers (the rate limit's
\* timestamps apart, which no other state depends on).
TypeOK ==
  /\ now \in 0..MaxTime
  /\ cred \in [Creds -> Cred]
  /\ msg \in [Messages -> Msg]
  /\ nonce \in [Messages -> Nat]
  /\ call \in [Handlers -> Call]
  /\ served \in [Messages -> Seq(Nat)]

\* "Un nonce ya registrado se rechaza siempre; los expirados los purga el
\* reconciler": however often and however late a message is delivered, to one
\* handler or to several at once, with purges in between, a guard lets it pass
\* once.  The one exception is an API call let in within the second of its
\* signature: its nonce expires a fraction of a second before its window ends.
AcceptedOnce ==
  \A m \in Messages :
    Len(served[m]) > 1 => msg[m].op # "cron" /\ served[m][1] = msg[m].ts

\* revoke's "anti-lockout": no step of an administrative call, a rotation left
\* half done included, takes the last active admin credential away.
AdminRemains == [][ActiveAdmins # {} => ActiveAdmins' # {}]_vars

\* "Revocar credencial inmediatamente" is final, and a rotated credential lives
\* "hasta el fin de la gracia o su expiración previa": no rotation, rotated
\* again or not, and no lastUsedAt write of a call that was let in before brings
\* a revoked credential back or postpones the end of one.
LivesOnlyShorten ==
  [][\A c \in Creds :
       /\ cred[c].status = "revoked" => cred'[c].status = "revoked"
       /\ cred[c].status # "none" => cred'[c].expires <= cred[c].expires]_vars
===============================================================================
