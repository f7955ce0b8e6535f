----------------------------- MODULE AccessProofs -----------------------------
(***************************************************************************)
(* A nonce is accepted once, and calls that change credentials one at a    *)
(* time keep an administrator and only shorten lives: for any credentials, *)
(* messages, handlers and times.                                           *)
(***************************************************************************)
EXTENDS Access, TLAPS, FiniteSetTheorems

Unserved == {"nonce", "insert", "limit"}
Rotating == {"rotated", "limitOld", "limiting"}
Revoking == {"check", "revoking", "revoked"}

\* A message names credentials that exist; an unsent one has left no trace.
MsgInv(m) ==
  /\ msg[m].op \notin {"none", "cron"} =>
       msg[m].actor \in Creds /\ cred[msg[m].actor].status # "none"
  /\ msg[m].op \in {"rotate", "revoke"} =>
       msg[m].target \in Creds /\ cred[msg[m].target].status # "none"
  /\ msg[m].ts <= now
  /\ msg[m].op = "none" => nonce[m] = 0 /\ served[m] = <<>>

\* A handler that remembers k serves a sent message, with the operation it asks
\* for, and writes back rows that exist.
CallInv(k) ==
  /\ k.pc # "idle" \/ k.touch # "none" =>
       k.msg \in Messages /\ msg[k.msg].op \notin {"none", "cron"}
  /\ k.pc \in Rotating \cup {"rotate"} => msg[k.msg].op = "rotate"
  /\ k.pc \in Revoking \cup {"revoke"} => msg[k.msg].op = "revoke"
  /\ k.pc \in {"limiting", "revoked"} => k.copy.status # "none"
  /\ k.touch = "write" => k.old.status # "none"
  /\ k.touch # "none" => k.pc \notin Unserved

BaseInv ==
  /\ TypeOK
  /\ \A m \in Messages : MsgInv(m)
  /\ \A h \in Handlers : CallInv(call[h])
-----------------------------------------------------------------------------
(* Records *)

LEMMA Rows == NoRow \in Cred /\ IdleCall \in Call /\ NoRow.status = "none"
  <1>1. NoRow \in Cred /\ NoRow.status = "none"
    BY AccessAssumption DEF NoRow, Cred, Never
  <1> QED
    BY <1>1, AccessAssumption DEF IdleCall, Call, Never

LEMMA Idle ==
  IdleCall.pc = "idle" /\ IdleCall.touch = "none" /\ CallInv(IdleCall)
  BY DEF IdleCall, CallInv, Rotating, Revoking, Unserved

\* What After remembers.
LEMMA AfterFacts ==
  ASSUME TypeOK, NEW h \in Handlers, NEW s \in {"idle", "insert", "limit", "limitOld", "revoking"}
  PROVE  /\ After(h, s) \in Call /\ After(h, s).pc = s
         /\ After(h, s).touch = call[h].touch
         /\ After(h, s) # IdleCall =>
              /\ After(h, s).msg = call[h].msg /\ After(h, s).old = call[h].old
              /\ After(h, s).until = call[h].until /\ After(h, s).copy = call[h].copy
  <1>1. call[h] \in Call
    BY DEF TypeOK
  <1>2. CASE s = "idle" /\ call[h].touch = "none"
    BY <1>2, Rows, Idle DEF After
  <1>3. CASE ~(s = "idle" /\ call[h].touch = "none")
    BY <1>1, <1>3 DEF After, Call
  <1> QED
    BY <1>2, <1>3

\* Expiries.
LEMMA Expiries ==
  ASSUME TypeOK
  PROVE  now + Grace \in 0..Never /\ Never \in 0..Never
  BY AccessAssumption DEF TypeOK, Never

LEMMA EffectiveExpiry ==
  ASSUME TypeOK, NEW old \in Cred
  PROVE  effectiveExpiry(old) \in 0..Never /\ effectiveExpiry(old) <= old.expires
  BY Expiries, AccessAssumption DEF TypeOK, Cred, Never, effectiveExpiry

\* A new credential leaves the existing ones alone.
LEMMA Fresh ==
  ASSUME TypeOK, NEW c \in Free, NEW type \in {"api", "admin"}, NEW expires \in 0..Never,
         NewCred(c, type, expires)
  PROVE  /\ cred' \in [Creds -> Cred] /\ cred'[c].status = "active"
         /\ \A x \in Creds \ {c} : cred'[x] = cred[x]
         /\ \A x \in Creds : cred[x].status # "none" => x # c
  BY DEF TypeOK, Free, NewCred, Cred
-----------------------------------------------------------------------------
(* The base invariant *)

\* A handler's step: it remembers n, and nothing a message relies on goes.
LEMMA HandlerMoves ==
  ASSUME BaseInv, NEW h \in Handlers, NEW n \in Call, call' = [call EXCEPT ![h] = n],
         CallInv(n), UNCHANGED <<now, msg>>,
         cred' \in [Creds -> Cred],
         \A c \in Creds : cred[c].status # "none" => cred'[c].status # "none",
         nonce' \in [Messages -> Nat], served' \in [Messages -> Seq(Nat)],
         \A m \in Messages : msg[m].op = "none" =>
           nonce'[m] = nonce[m] /\ served'[m] = served[m]
  PROVE  BaseInv'
  <1>1. TypeOK'
    BY DEF BaseInv, TypeOK
  <1>2. \A m \in Messages : MsgInv(m)'
    BY DEF BaseInv, MsgInv
  <1>3. \A g \in Handlers : CallInv(call[g])'
    <2> SUFFICES ASSUME NEW g \in Handlers PROVE CallInv(call[g])'
      OBVIOUS
    <2>1. call'[g] = IF g = h THEN n ELSE call[g]
      BY DEF BaseInv, TypeOK
    <2>2. CallInv(call'[g])
      BY <2>1 DEF BaseInv
    <2> QED
      BY <2>2 DEF CallInv
  <1> QED
    BY <1>1, <1>2, <1>3 DEF BaseInv

\* A step that only moves a handler on.
LEMMA HandlerGoes ==
  ASSUME BaseInv, NEW h \in Handlers, NEW n \in Call, call' = [call EXCEPT ![h] = n],
         CallInv(n), UNCHANGED <<now, cred, msg, nonce, served>>
  PROVE  BaseInv'
  BY HandlerMoves DEF BaseInv, TypeOK

\* Going on with a message that is being served.
LEMMA AfterInv ==
  ASSUME BaseInv, NEW h \in Handlers, call[h].pc # "idle",
         NEW s \in {"idle", "insert", "limit", "limitOld", "revoking"},
         s \in {"insert", "limit"} => call[h].pc \in Unserved,
         s = "limitOld" => call[h].pc \in Rotating, s = "revoking" => call[h].pc \in Revoking
  PROVE  CallInv(After(h, s))
  <1>1. TypeOK /\ CallInv(call[h])
    BY DEF BaseInv
  <1>2. CASE After(h, s) = IdleCall
    BY <1>2, Idle
  <1>3. CASE After(h, s) # IdleCall
    BY <1>1, <1>3, AfterFacts DEF CallInv, Rotating, Revoking, Unserved
  <1> QED
    BY <1>2, <1>3

\* The guard's steps.
LEMMA GuardBase ==
  ASSUME BaseInv, NEW h \in Handlers,
         (\E m \in Messages : Receive(h, m)) \/ FindNonce(h) \/ InsertNonce(h) \/ Admit(h)
  PROVE  BaseInv'
  <1>t. TypeOK /\ call[h] \in Call /\ CallInv(call[h]) /\ now \in Nat
    BY AccessAssumption DEF BaseInv, TypeOK
  <1>1. ASSUME NEW m \in Messages, Receive(h, m) PROVE BaseInv'
    <2> DEFINE n == [pc |-> "nonce", msg |-> m, copy |-> cred[msg[m].actor], until |-> 0,
                     touch |-> "none", old |-> NoRow]
    <2>1. msg[m].op \notin {"none", "cron"} /\ call' = [call EXCEPT ![h] = n]
          /\ UNCHANGED <<now, cred, msg, nonce, served>>
      BY <1>1 DEF Receive
    <2>2. cred[msg[m].actor] \in Cred
      BY <1>t, <2>1 DEF BaseInv, MsgInv, TypeOK
    <2>3. n \in Call
      BY <2>2, Rows, AccessAssumption DEF Call, Never
    <2>4. CallInv(n)
      BY <2>1 DEF CallInv, Rotating, Revoking, Unserved
    <2> HIDE DEF n
    <2> QED
      BY <2>1, <2>3, <2>4, HandlerGoes
  <1>2. ASSUME NEW s \in {"idle", "insert", "limit"}, call[h].pc \in Unserved, Goto(h, s),
               UNCHANGED <<now, cred, msg, nonce, served>>
        PROVE  BaseInv'
    BY <1>t, <1>2, AfterFacts, AfterInv, HandlerGoes DEF Goto, Unserved
  <1>3. CASE FindNonce(h)
    BY <1>2, <1>3 DEF FindNonce, Finish, Unserved
  <1>4. CASE InsertNonce(h)
    <2> DEFINE m == call[h].msg
    <2>1. CASE nonce[m] # 0
      BY <1>2, <1>4, <2>1 DEF InsertNonce, Finish, Unserved
    <2>2. CASE nonce[m] = 0
      <3>1. /\ call[h].pc = "insert" /\ nonce' = [nonce EXCEPT ![m] = now + Window]
            /\ call' = [call EXCEPT ![h] = After(h, "limit")]
            /\ UNCHANGED <<now, cred, msg, served>>
        BY <1>4, <2>2 DEF InsertNonce, Goto
      <3>2. After(h, "limit") \in Call /\ CallInv(After(h, "limit"))
        BY <1>t, <3>1, AfterFacts, AfterInv DEF Unserved
      <3>3. m \in Messages /\ msg[m].op # "none"
        BY <1>t, <3>1 DEF CallInv
      <3>7. now + Window \in Nat
        BY <1>t, AccessAssumption
      <3>4. nonce' \in [Messages -> Nat]
        BY <1>t, <3>1, <3>7 DEF TypeOK
      <3>5. \A k \in Messages : msg[k].op = "none" => nonce'[k] = nonce[k]
        BY <1>t, <3>1, <3>3 DEF TypeOK
      <3>6. cred' \in [Creds -> Cred] /\ served' \in [Messages -> Seq(Nat)]
        BY <1>t, <3>1 DEF TypeOK
      <3> QED
        BY <3>1, <3>2, <3>4, <3>5, <3>6, HandlerMoves
    <2> QED
      BY <2>1, <2>2
  <1>5. CASE Admit(h)
    <2> DEFINE m == call[h].msg
    <2>1. call[h].pc = "limit" /\ UNCHANGED <<now, cred, msg, nonce>>
      BY <1>5 DEF Admit
    <2>2. m \in Messages /\ msg[m].op \in Ops \ {"cron"}
      BY <1>t, <2>1 DEF CallInv, TypeOK, Msg
    <2>3. \/ Finish(h) /\ UNCHANGED served
          \/ /\ served' = [served EXCEPT ![m] = Append(@, now)]
             /\ call' = [call EXCEPT ![h].pc = msg[m].op, ![h].touch = "read"]
      BY <1>5 DEF Admit
    <2>4. CASE Finish(h) /\ UNCHANGED served
      BY <1>2, <2>1, <2>4 DEF Finish, Unserved
    <2>5. CASE /\ served' = [served EXCEPT ![m] = Append(@, now)]
               /\ call' = [call EXCEPT ![h].pc = msg[m].op, ![h].touch = "read"]
      <3> DEFINE n == [[call[h] EXCEPT !.pc = msg[m].op] EXCEPT !.touch = "read"]
      <3>1. call' = [call EXCEPT ![h] = n]
        BY <1>t, <2>5 DEF TypeOK
      <3>2. n \in Call /\ n.pc = msg[m].op /\ n.msg = m /\ n.touch = "read"
        BY <1>t, <2>2 DEF Call, Ops, Admin
      <3>3. CallInv(n)
        BY <2>2, <3>2 DEF CallInv, Ops, Admin, Rotating, Revoking, Unserved
      <3>7. served \in [Messages -> Seq(Nat)] /\ Append(served[m], now) \in Seq(Nat)
        BY <1>t, <2>2 DEF TypeOK
      <3>8. served' = [served EXCEPT ![m] = Append(served[m], now)]
        BY <2>5
      <3>4. served' \in [Messages -> Seq(Nat)]
        BY <3>7, <3>8
      <3>5. \A k \in Messages : msg[k].op = "none" => served'[k] = served[k]
        BY <2>2, <3>7, <3>8 DEF Ops, Admin
      <3>6. cred' \in [Creds -> Cred] /\ nonce' \in [Messages -> Nat]
        BY <1>t, <2>1 DEF TypeOK
      <3> HIDE DEF n
      <3> QED
        BY <2>1, <3>1, <3>2, <3>3, <3>4, <3>5, <3>6, HandlerMoves
    <2> QED
      BY <2>3, <2>4, <2>5
  <1> QED
    BY <1>1, <1>3, <1>4, <1>5

\* A step that changes credentials and moves the handler to n.
LEMMA CredMoves ==
  ASSUME BaseInv, NEW h \in Handlers, NEW n \in Call, call' = [call EXCEPT ![h] = n],
         CallInv(n), UNCHANGED <<now, msg, nonce, served>>, cred' \in [Creds -> Cred],
         \A c \in Creds : cred[c].status # "none" => cred'[c].status # "none"
  PROVE  BaseInv'
  BY HandlerMoves DEF BaseInv, TypeOK

\* What the administration's and lastUsedAt's steps start from.
LEMMA ServedFacts ==
  ASSUME BaseInv, NEW h \in Handlers, call[h].pc # "idle" \/ call[h].touch # "none"
  PROVE  /\ TypeOK /\ CallInv(call[h]) /\ call[h] \in Call /\ call[h].msg \in Messages
         /\ msg[call[h].msg].actor \in Creds /\ cred[msg[call[h].msg].actor] \in Cred
         /\ cred[msg[call[h].msg].actor].status # "none"
         /\ call[h].pc \in Rotating \cup Revoking \cup {"rotate", "revoke"} =>
              Target(h) \in Creds /\ cred[Target(h)] \in Cred /\ cred[Target(h)].status # "none"
  BY DEF BaseInv, TypeOK, CallInv, MsgInv, Target, Rotating, Revoking

\* The update of lastUsedAt.
LEMMA TouchBase ==
  ASSUME BaseInv, NEW h \in Handlers, TouchRead(h) \/ TouchWrite(h)
  PROVE  BaseInv'
  <1> DEFINE c == msg[call[h].msg].actor
  <1>t. /\ TypeOK /\ CallInv(call[h]) /\ call[h] \in Call /\ c \in Creds
        /\ cred[c] \in Cred /\ cred[c].status # "none"
    BY ServedFacts DEF TouchRead, TouchWrite
  <1>1. CASE TouchRead(h)
    <2> DEFINE n == [[call[h] EXCEPT !.touch = "write"] EXCEPT !.old = cred[c]]
    <2>1. call' = [call EXCEPT ![h] = n]
      BY <1>1, <1>t DEF TouchRead, TypeOK
    <2>2. /\ n \in Call /\ n.pc = call[h].pc /\ n.msg = call[h].msg /\ n.old = cred[c]
          /\ n.copy = call[h].copy /\ call[h].touch = "read"
      BY <1>1, <1>t DEF Call, TouchRead
    <2>3. CallInv(n)
      BY <1>t, <2>2 DEF CallInv
    <2>4. UNCHANGED <<now, cred, msg, nonce, served>>
      BY <1>1 DEF TouchRead
    <2> HIDE DEF n
    <2> QED
      BY <2>1, <2>2, <2>3, <2>4, HandlerGoes
  <1>2. CASE TouchWrite(h)
    <2> DEFINE n == IF call[h].pc = "idle" THEN IdleCall
                    ELSE [[call[h] EXCEPT !.touch = "none"] EXCEPT !.old = NoRow]
    <2>1. /\ call[h].touch = "write" /\ cred' = [cred EXCEPT ![c] = call[h].old]
          /\ UNCHANGED <<now, msg, nonce, served>>
      BY <1>2 DEF TouchWrite
    <2>2. call' = [call EXCEPT ![h] = n]
      BY <1>2, <1>t DEF TouchWrite, TypeOK
    <2>3. n \in Call /\ CallInv(n)
      <3>1. CASE call[h].pc = "idle"
        BY <3>1, Rows, Idle
      <3>2. CASE call[h].pc # "idle"
        <4>1. /\ n \in Call /\ n.pc = call[h].pc /\ n.msg = call[h].msg /\ n.touch = "none"
              /\ n.copy = call[h].copy
          BY <1>t, <3>2, Rows DEF Call
        <4> QED
          BY <1>t, <3>2, <4>1 DEF CallInv
      <3> QED
        BY <3>1, <3>2
    <2>4. call[h].old \in Cred /\ call[h].old.status # "none"
      BY <1>t, <2>1 DEF Call, CallInv
    <2>5. /\ cred' \in [Creds -> Cred]
          /\ \A x \in Creds : cred[x].status # "none" => cred'[x].status # "none"
      BY <1>t, <2>1, <2>4 DEF TypeOK
    <2> HIDE DEF n
    <2> QED
      BY <2>1, <2>2, <2>3, <2>5, CredMoves
  <1> QED
    BY <1>1, <1>2

\* Use, create, rotate and revoke.
LEMMA AdminBase ==
  ASSUME BaseInv, NEW h \in Handlers,
         \/ Use(h) \/ Create(h) \/ Rotate(h) \/ RotateCreate(h) \/ ReadRow(h)
         \/ RotateLimit(h) \/ Revoke(h) \/ RevokeCheck(h) \/ RevokeWrite(h) \/ Crash(h)
  PROVE  BaseInv'
  <1> DEFINE c == Target(h)
  <1>0. call[h].pc \notin {"idle", "nonce", "limit"}
    BY DEF Use, Create, Rotate, RotateCreate, ReadRow, RotateLimit, Revoke, RevokeCheck,
           RevokeWrite, Crash
  <1>t. /\ TypeOK /\ CallInv(call[h]) /\ call[h] \in Call
        /\ call[h].pc \in Rotating \cup Revoking \cup {"rotate", "revoke"} =>
             c \in Creds /\ cred[c] \in Cred /\ cred[c].status # "none"
    BY <1>0, ServedFacts
  <1>g. ASSUME NEW s \in {"idle", "limitOld", "revoking"}, Goto(h, s),
               s = "limitOld" => call[h].pc \in Rotating,
               s = "revoking" => call[h].pc \in Revoking,
               UNCHANGED <<now, msg, nonce, served>>, cred' \in [Creds -> Cred],
               \A x \in Creds : cred[x].status # "none" => cred'[x].status # "none"
        PROVE  BaseInv'
    BY <1>0, <1>t, <1>g, AfterFacts, AfterInv, CredMoves DEF Goto
  <1>n. ASSUME NEW x \in Free, NEW type \in {"api", "admin"}, NEW e \in 0..Never,
               NewCred(x, type, e)
        PROVE  /\ cred' \in [Creds -> Cred]
               /\ \A y \in Creds : cred[y].status # "none" => cred'[y].status # "none"
    BY <1>t, <1>n, Fresh
  <1>1. CASE Use(h)
    BY <1>1, <1>g, <1>t DEF Use, Finish, TypeOK
  <1>2. CASE Create(h)
    <2>1. PICK x \in Free, type \in {"api", "admin"}, e \in {now + Grace, Never} :
            NewCred(x, type, e)
      BY <1>2 DEF Create
    <2>2. e \in 0..Never
      BY <1>t, Expiries
    <2> QED
      BY <1>2, <1>g, <1>n, <2>1, <2>2 DEF Create, Finish
  <1>3. CASE Rotate(h)
    <2> DEFINE n == [[[call[h] EXCEPT !.pc = "rotated"] EXCEPT !.copy = cred[c]]
                       EXCEPT !.until = effectiveExpiry(cred[c])]
    <2>1. call[h].pc = "rotate" /\ UNCHANGED <<now, cred, msg, nonce, served>>
      BY <1>3 DEF Rotate
    <2>2. call' = [call EXCEPT ![h] = n]
      BY <1>3, <1>t DEF Rotate, TypeOK
    <2>3. /\ n \in Call /\ n.pc = "rotated" /\ n.msg = call[h].msg
          /\ n.touch = call[h].touch /\ n.old = call[h].old
      BY <1>t, <2>1, EffectiveExpiry DEF Call
    <2>4. CallInv(n)
      BY <1>t, <2>1, <2>3 DEF CallInv, Rotating, Revoking, Unserved
    <2> HIDE DEF n
    <2> QED
      BY <2>1, <2>2, <2>3, <2>4, HandlerGoes
  <1>4. CASE RotateCreate(h)
    <2>1. call[h].pc = "rotated" /\ UNCHANGED <<now, msg, nonce, served>>
      BY <1>4 DEF RotateCreate
    <2>2. CASE Finish(h) /\ UNCHANGED cred
      BY <1>g, <1>t, <2>1, <2>2 DEF Finish, TypeOK
    <2>3. ASSUME NEW x \in Free, NewCred(x, call[h].copy.type, Never), Goto(h, "limitOld")
          PROVE  BaseInv'
      <3>1. cred' = [cred EXCEPT ![x] =
              [type |-> call[h].copy.type, status |-> "active", expires |-> Never]]
        BY <2>3 DEF NewCred
      <3>2. [type |-> call[h].copy.type, status |-> "active", expires |-> Never] \in Cred
        BY <1>t, Expiries DEF Call, Cred
      <3>3. /\ cred' \in [Creds -> Cred]
            /\ \A y \in Creds : cred[y].status # "none" => cred'[y].status # "none"
        BY <1>t, <3>1, <3>2 DEF TypeOK
      <3> QED
        BY <1>g, <2>1, <2>3, <3>3 DEF Rotating
    <2> QED
      BY <1>4, <2>2, <2>3 DEF RotateCreate
  <1>5. CASE ReadRow(h)
    <2> DEFINE s == IF call[h].pc = "limitOld" THEN "limiting" ELSE "revoked"
               n == [[call[h] EXCEPT !.pc = s] EXCEPT !.copy = cred[c]]
    <2>1. call[h].pc \in {"limitOld", "revoking"} /\ UNCHANGED <<now, cred, msg, nonce, served>>
      BY <1>5 DEF ReadRow
    <2>2. call' = [call EXCEPT ![h] = n]
      BY <1>5, <1>t DEF ReadRow, TypeOK
    <2>3. /\ n \in Call /\ n.pc = s /\ n.msg = call[h].msg /\ n.copy = cred[c]
          /\ n.touch = call[h].touch /\ n.old = call[h].old
      BY <1>t, <2>1 DEF Call, Rotating, Revoking
    <2>4. CallInv(n)
      BY <1>t, <2>1, <2>3 DEF CallInv, Rotating, Revoking, Unserved
    <2> HIDE DEF n
    <2> QED
      BY <2>1, <2>2, <2>3, <2>4, HandlerGoes
  <1>6. CASE RotateLimit(h)
    <2>1. /\ call[h].pc = "limiting" /\ Goto(h, "idle") /\ UNCHANGED <<now, msg, nonce, served>>
          /\ cred' = [cred EXCEPT ![c] = [call[h].copy EXCEPT !.expires = call[h].until]]
      BY <1>6 DEF RotateLimit, Finish
    <2>2. /\ [call[h].copy EXCEPT !.expires = call[h].until] \in Cred
          /\ [call[h].copy EXCEPT !.expires = call[h].until].status # "none"
      BY <1>t, <2>1 DEF Call, Cred, CallInv
    <2>3. /\ cred' \in [Creds -> Cred]
          /\ \A y \in Creds : cred[y].status # "none" => cred'[y].status # "none"
      BY <1>t, <2>1, <2>2 DEF TypeOK
    <2> QED
      BY <1>g, <2>1, <2>3
  <1>7. CASE Revoke(h)
    <2> DEFINE s == IF cred[c].type = "admin" /\ cred[c].status = "active"
                      THEN "check" ELSE "revoking"
               n == [[call[h] EXCEPT !.copy = cred[c]] EXCEPT !.pc = s]
    <2>1. call[h].pc = "revoke" /\ UNCHANGED <<now, cred, msg, nonce, served>>
      BY <1>7 DEF Revoke
    <2>2. call' = [call EXCEPT ![h] = n]
      BY <1>7, <1>t DEF Revoke, TypeOK
    <2>3. /\ n \in Call /\ n.pc = s /\ n.msg = call[h].msg
          /\ n.touch = call[h].touch /\ n.old = call[h].old
      BY <1>t, <2>1 DEF Call
    <2>4. CallInv(n)
      BY <1>t, <2>1, <2>3 DEF CallInv, Rotating, Revoking, Unserved
    <2> HIDE DEF n
    <2> QED
      BY <2>1, <2>2, <2>3, <2>4, HandlerGoes
  <1>8. CASE RevokeCheck(h)
    <2>1. call[h].pc \in Revoking /\ UNCHANGED <<now, cred, msg, nonce, served>>
      BY <1>8 DEF RevokeCheck, Revoking
    <2>2. Goto(h, "revoking") \/ Goto(h, "idle")
      BY <1>8 DEF RevokeCheck
    <2>3. cred' \in [Creds -> Cred]
      BY <1>t, <2>1 DEF TypeOK
    <2> QED
      BY <1>g, <2>1, <2>2, <2>3
  <1>9. CASE RevokeWrite(h)
    <2>1. /\ call[h].pc = "revoked" /\ Goto(h, "idle") /\ UNCHANGED <<now, msg, nonce, served>>
          /\ cred' = [cred EXCEPT ![c] = [call[h].copy EXCEPT !.status = "revoked"]]
      BY <1>9 DEF RevokeWrite, Finish
    <2>2. /\ [call[h].copy EXCEPT !.status = "revoked"] \in Cred
          /\ [call[h].copy EXCEPT !.status = "revoked"].status # "none"
      BY <1>t, <2>1 DEF Call, Cred
    <2>3. /\ cred' \in [Creds -> Cred]
          /\ \A y \in Creds : cred[y].status # "none" => cred'[y].status # "none"
      BY <1>t, <2>1, <2>2 DEF TypeOK
    <2> QED
      BY <1>g, <2>1, <2>3
  <1>10. CASE Crash(h)
    <2>1. call' = [call EXCEPT ![h] = IdleCall] /\ UNCHANGED <<now, cred, msg, nonce, served>>
      BY <1>10 DEF Crash
    <2> QED
      BY <2>1, Rows, Idle, HandlerGoes
  <1> QED
    BY <1>1, <1>2, <1>3, <1>4, <1>5, <1>6, <1>7, <1>8, <1>9, <1>10

\* The clock, the clients, the purge, the cron guard and the bootstrap.
LEMMA OutsideBase ==
  ASSUME BaseInv,
         \/ Tick \/ purgeNonces
         \/ \E m \in Messages, op \in Ops, actor, target \in Creds \cup {NoCred} :
              Send(m, op, actor, target)
         \/ \E m \in Messages : CronCall(m)
         \/ \E c \in Creds : Bootstrap(c)
  PROVE  BaseInv'
  <1>t. /\ TypeOK /\ now \in Nat /\ now + 1 \in Nat /\ now + Window \in Nat
        /\ \A m \in Messages : msg[m].ts \in Nat
    BY AccessAssumption DEF BaseInv, TypeOK, Msg
  <1>1. CASE Tick
    BY <1>1, <1>t, AccessAssumption DEF Tick, BaseInv, TypeOK, MsgInv, CallInv
  <1>2. CASE purgeNonces
    <2>1. /\ UNCHANGED <<now, cred, msg, call, served>>
          /\ nonce' = [m \in Messages |->
               IF msg[m].op # "cron" /\ nonce[m] <= now THEN 0 ELSE nonce[m]]
      BY <1>2 DEF purgeNonces
    <2>2. TypeOK'
      BY <1>t, <2>1 DEF TypeOK
    <2> QED
      BY <2>1, <2>2 DEF BaseInv, MsgInv, CallInv
  <1>3. ASSUME NEW m \in Messages, NEW op \in Ops, NEW actor \in Creds \cup {NoCred},
               NEW target \in Creds \cup {NoCred}, Send(m, op, actor, target)
        PROVE  BaseInv'
    <2> DEFINE n == [op |-> op, actor |-> actor, target |-> target, ts |-> now]
    <2>1. /\ msg[m].op = "none" /\ msg' = [msg EXCEPT ![m] = n]
          /\ op = "cron" <=> actor = NoCred
          /\ op \in {"rotate", "revoke"} <=> target # NoCred
          /\ \A c \in {actor, target} \ {NoCred} : cred[c].status # "none"
          /\ UNCHANGED <<now, cred, nonce, call, served>>
      BY <1>3 DEF Send
    <2>2. n \in Msg
      BY <1>t DEF Msg, TypeOK
    <2>3. /\ TypeOK' /\ msg'[m] = n /\ \A k \in Messages \ {m} : msg'[k] = msg[k]
      BY <1>t, <2>1, <2>2 DEF TypeOK
    <2>4. ASSUME NEW k \in Messages PROVE MsgInv(k)'
      <3>1. CASE k = m
        <4>1. msg'[k].op = op /\ msg'[k].actor = actor /\ msg'[k].target = target
              /\ msg'[k].ts = now /\ op # "none"
          BY <2>3, <3>1 DEF Ops, Admin
        <4>2. op # "cron" => actor \in Creds /\ cred[actor].status # "none"
          BY <2>1, AccessAssumption
        <4>3. op \in {"rotate", "revoke"} => target \in Creds /\ cred[target].status # "none"
          BY <2>1, AccessAssumption
        <4> HIDE DEF n
        <4> QED
          BY <1>t, <2>1, <4>1, <4>2, <4>3 DEF MsgInv
      <3>2. CASE k # m
        BY <2>1, <2>3, <3>2 DEF BaseInv, MsgInv
      <3> QED
        BY <3>1, <3>2
    <2>5. ASSUME NEW h \in Handlers PROVE CallInv(call[h])'
      <3>1. CallInv(call[h]) /\ call'[h] = call[h]
        BY <2>1 DEF BaseInv
      <3>2. call[h].pc # "idle" \/ call[h].touch # "none" =>
              call[h].msg \in Messages /\ msg'[call[h].msg] = msg[call[h].msg]
        BY <2>1, <2>3, <3>1 DEF CallInv
      <3> QED
        BY <3>1, <3>2 DEF CallInv, Rotating, Revoking, Unserved
    <2> QED
      BY <2>3, <2>4, <2>5 DEF BaseInv
  <1>4. ASSUME NEW m \in Messages, CronCall(m) PROVE BaseInv'
    <2>1. /\ msg[m].op = "cron" /\ nonce' = tryConsume(m).nonces
          /\ served' = IF tryConsume(m).new THEN [served EXCEPT ![m] = Append(@, now)] ELSE served
          /\ UNCHANGED <<now, cred, msg, call>>
      BY <1>4 DEF CronCall
    <2>2. nonce' \in [Messages -> Nat] /\ \A k \in Messages \ {m} : nonce'[k] \in {0, nonce[k]}
      BY <1>t, <2>1 DEF tryConsume, TypeOK
    <2>3. Append(served[m], now) \in Seq(Nat) /\ served \in [Messages -> Seq(Nat)]
      BY <1>t DEF TypeOK
    <2>4. /\ served' \in [Messages -> Seq(Nat)]
          /\ \A k \in Messages \ {m} : served'[k] = served[k]
      BY <2>1, <2>3
    <2>5. TypeOK'
      BY <1>t, <2>1, <2>2, <2>4 DEF TypeOK
    <2> QED
      BY <2>1, <2>2, <2>4, <2>5 DEF BaseInv, MsgInv, CallInv
  <1>5. ASSUME NEW c \in Creds, Bootstrap(c) PROVE BaseInv'
    <2>1. c \in Free /\ NewCred(c, "admin", Never) /\ UNCHANGED <<now, msg, nonce, call, served>>
      BY <1>5 DEF Bootstrap
    <2>2. /\ cred' \in [Creds -> Cred]
          /\ \A y \in Creds : cred[y].status # "none" => cred'[y].status # "none"
      BY <1>t, <2>1, Fresh, Expiries
    <2> QED
      BY <1>t, <2>1, <2>2 DEF BaseInv, TypeOK, MsgInv, CallInv
  <1> QED
    BY <1>1, <1>2, <1>3, <1>4, <1>5

LEMMA BaseInit == Init => BaseInv
  <1> SUFFICES ASSUME Init PROVE BaseInv
    OBVIOUS
  <1>1. Unsent \in Msg /\ Unsent.op = "none" /\ Unsent.ts = 0
    BY AccessAssumption DEF Unsent, Msg
  <1>2. TypeOK
    BY <1>1, Rows, AccessAssumption DEF Init, TypeOK
  <1>3. \A m \in Messages : MsgInv(m)
    BY <1>1 DEF Init, MsgInv
  <1>4. \A h \in Handlers : CallInv(call[h])
    BY Idle DEF Init
  <1> QED
    BY <1>2, <1>3, <1>4 DEF BaseInv

LEMMA BaseNext == BaseInv /\ [Next]_vars => BaseInv'
  <1> SUFFICES ASSUME BaseInv, [Next]_vars PROVE BaseInv'
    OBVIOUS
  <1>1. ASSUME NEW h \in Handlers, Handle(h) PROVE BaseInv'
    BY <1>1, GuardBase, TouchBase, AdminBase DEF Handle
  <1>2. CASE UNCHANGED vars
    BY <1>2 DEF vars, BaseInv, TypeOK, MsgInv, CallInv
  <1> QED
    BY <1>1, <1>2, OutsideBase DEF Next

\* The types of the specification, and that every message a handler serves and
\* every row it writes back exist, whatever calls overlap.
THEOREM TypeCorrect == Spec => []BaseInv
  BY BaseInit, BaseNext, PTL DEF Spec
-----------------------------------------------------------------------------
(* Nonces *)

\* A message that was let in at a later second than its signature's, or by the
\* cron guard, still has its nonce or has left its window.
Spent(m) ==
  Len(served[m]) > 0 =>
    /\ msg[m].ts <= served[m][1] /\ served[m][1] <= now
    /\ served[m][1] # msg[m].ts \/ msg[m].op = "cron" =>
         nonce[m] = served[m][1] + Window \/ ~InWindow(m)

\* Inside the guard: within the window, and behind the insert alone with the nonce.
Entering(k) ==
  /\ k.pc \in Unserved => InWindow(k.msg)
  /\ k.pc = "limit" =>
       /\ nonce[k.msg] = now + Window
       /\ Len(served[k.msg]) = 0 \/ served[k.msg][1] = msg[k.msg].ts

NonceInv ==
  /\ AcceptedOnce
  /\ \A m \in Messages : Spent(m)
  /\ \A h \in Handlers : Entering(call[h])
  /\ \A g, h \in Handlers :
       call[g].pc = "limit" /\ call[h].pc = "limit" /\ call[g].msg = call[h].msg => g = h

\* A handler's step that touches neither nonces nor messages.
LEMMA NonceStays ==
  ASSUME BaseInv, NonceInv, NEW h \in Handlers, NEW n \in Call,
         call' = [call EXCEPT ![h] = n], UNCHANGED <<now, msg, nonce, served>>,
         n.pc \in Unserved => InWindow(n.msg), n.pc # "limit"
  PROVE  NonceInv'
  <1>1. \A g \in Handlers : call'[g] = IF g = h THEN n ELSE call[g]
    BY DEF BaseInv, TypeOK
  <1>2. AcceptedOnce' /\ \A m \in Messages : Spent(m)'
    BY DEF NonceInv, AcceptedOnce, Spent, InWindow
  <1>3. \A g \in Handlers : Entering(call[g])'
    BY <1>1 DEF NonceInv, Entering, InWindow
  <1> QED
    BY <1>1, <1>2, <1>3 DEF NonceInv

\* Behind the guard only the handler h moves, and stays behind it.
LEMMA ServedMoves ==
  ASSUME BaseInv, NEW h \in Handlers,
         \/ TouchRead(h) \/ TouchWrite(h) \/ Use(h) \/ Create(h) \/ Rotate(h)
         \/ RotateCreate(h) \/ ReadRow(h) \/ RotateLimit(h) \/ Revoke(h) \/ RevokeCheck(h)
         \/ RevokeWrite(h) \/ Crash(h)
  PROVE  /\ call'[h] \in Call /\ call' = [call EXCEPT ![h] = call'[h]]
         /\ call'[h].pc \notin Unserved
         /\ UNCHANGED <<now, msg, nonce, served>>
  <1>t. TypeOK /\ CallInv(call[h]) /\ call[h] \in Call /\ call \in [Handlers -> Call]
    BY DEF BaseInv, TypeOK
  <1>c. call'[h] \in Call
    BY TouchBase, AdminBase DEF BaseInv, TypeOK
  <1>u. UNCHANGED <<now, msg, nonce, served>>
    BY DEF TouchRead, TouchWrite, Use, Create, Rotate, RotateCreate, ReadRow, RotateLimit,
           Revoke, RevokeCheck, RevokeWrite, Crash
  <1>g. ASSUME NEW s \in {"idle", "limitOld", "revoking"}, Goto(h, s)
        PROVE  call' = [call EXCEPT ![h] = call'[h]] /\ call'[h].pc \notin Unserved
    BY <1>t, <1>g, AfterFacts DEF Goto, Unserved
  <1>1. CASE TouchRead(h)
    BY <1>c, <1>u, <1>1, <1>t DEF TouchRead, Call, CallInv
  <1>2. CASE TouchWrite(h)
    <2>1. CASE call[h].pc = "idle"
      BY <1>c, <1>u, <1>2, <1>t, <2>1, Idle DEF TouchWrite, Unserved
    <2>2. CASE call[h].pc # "idle"
      BY <1>c, <1>u, <1>2, <1>t, <2>2 DEF TouchWrite, Call, CallInv
    <2> QED
      BY <2>1, <2>2
  <1>3. CASE Use(h) \/ Create(h) \/ RotateLimit(h) \/ RevokeWrite(h)
    BY <1>c, <1>u, <1>3, <1>g DEF Use, Create, RotateLimit, RevokeWrite, Finish
  <1>4. CASE Rotate(h)
    BY <1>c, <1>u, <1>4, <1>t DEF Rotate, Call, Unserved
  <1>5. CASE RotateCreate(h)
    BY <1>c, <1>u, <1>5, <1>g DEF RotateCreate, Finish
  <1>6. CASE ReadRow(h)
    BY <1>c, <1>u, <1>6, <1>t DEF ReadRow, Call, Unserved
  <1>7. CASE Revoke(h)
    BY <1>c, <1>u, <1>7, <1>t DEF Revoke, Call, Unserved
  <1>8. CASE RevokeCheck(h)
    BY <1>c, <1>u, <1>8, <1>g DEF RevokeCheck
  <1>9. CASE Crash(h)
    BY <1>c, <1>u, <1>9, <1>t, Idle DEF Crash, Unserved
  <1> QED
    BY <1>1, <1>2, <1>3, <1>4, <1>5, <1>6, <1>7, <1>8, <1>9

LEMMA NonceServed ==
  ASSUME BaseInv, NonceInv, NEW h \in Handlers,
         \/ TouchRead(h) \/ TouchWrite(h) \/ Use(h) \/ Create(h) \/ Rotate(h)
         \/ RotateCreate(h) \/ ReadRow(h) \/ RotateLimit(h) \/ Revoke(h) \/ RevokeCheck(h)
         \/ RevokeWrite(h) \/ Crash(h)
  PROVE  NonceInv'
  BY ServedMoves, NonceStays DEF Unserved

\* Inside the guard.
LEMMA NonceGuard ==
  ASSUME BaseInv, NonceInv, NEW h \in Handlers,
         (\E m \in Messages : Receive(h, m)) \/ FindNonce(h) \/ InsertNonce(h) \/ Admit(h)
  PROVE  NonceInv'
  <1>t. /\ TypeOK /\ call[h] \in Call /\ CallInv(call[h]) /\ call \in [Handlers -> Call]
        /\ now \in Nat /\ nonce \in [Messages -> Nat] /\ served \in [Messages -> Seq(Nat)]
        /\ \A m \in Messages : msg[m].ts \in Nat /\ msg[m].ts <= now
    BY AccessAssumption DEF BaseInv, TypeOK, MsgInv, Msg
  <1>c. call'[h] \in Call
    BY GuardBase DEF BaseInv, TypeOK
  <1>1. ASSUME NEW m \in Messages, Receive(h, m) PROVE NonceInv'
    <2>1. /\ call' = [call EXCEPT ![h] = call'[h]] /\ call'[h].pc = "nonce" /\ call'[h].msg = m
          /\ InWindow(m) /\ UNCHANGED <<now, msg, nonce, served>>
      BY <1>1, <1>t DEF Receive
    <2> QED
      BY <1>c, <2>1, NonceStays
  <1>2. ASSUME NEW s \in {"idle", "insert"}, call[h].pc \in Unserved, Goto(h, s),
               UNCHANGED <<now, msg, nonce, served>>
        PROVE  NonceInv'
    <2>1. call'[h] = After(h, s) /\ call' = [call EXCEPT ![h] = call'[h]]
      BY <1>2, <1>t DEF Goto
    <2>2. call'[h].pc = s /\ (s = "insert" => call'[h].msg = call[h].msg)
      BY <1>t, <2>1, AfterFacts, Idle
    <2>3. InWindow(call[h].msg)
      BY <1>2 DEF NonceInv, Entering
    <2> QED
      BY <1>2, <1>c, <2>1, <2>2, <2>3, NonceStays DEF Unserved
  <1>3. CASE FindNonce(h)
    BY <1>2, <1>3 DEF FindNonce, Finish, Unserved
  <1>4. CASE InsertNonce(h)
    <2> DEFINE m == call[h].msg
    <2>1. CASE nonce[m] # 0
      BY <1>2, <1>4, <2>1 DEF InsertNonce, Finish, Unserved
    <2>2. CASE nonce[m] = 0
      <3>1. /\ call[h].pc = "insert" /\ nonce' = [nonce EXCEPT ![m] = now + Window]
            /\ call' = [call EXCEPT ![h] = After(h, "limit")] /\ UNCHANGED <<now, msg, served>>
        BY <1>4, <2>2 DEF InsertNonce, Goto
      <3>2. m \in Messages /\ msg[m].op \notin {"none", "cron"} /\ InWindow(m)
        BY <1>t, <3>1 DEF CallInv, NonceInv, Entering, Unserved
      <3>3. /\ nonce'[m] = now + Window /\ \A k \in Messages \ {m} : nonce'[k] = nonce[k]
            /\ call'[h].pc = "limit" /\ call'[h].msg = m
            /\ \A g \in Handlers \ {h} : call'[g] = call[g]
        BY <1>t, <3>1, <3>2, AfterFacts, Idle
      <3>4. Len(served[m]) = 0 \/ served[m][1] = msg[m].ts
        <4>1. Spent(m) /\ Len(served[m]) \in Nat
          BY <1>t, <3>2 DEF NonceInv
        <4>2. Len(served[m]) > 0 => served[m][1] \in Nat
          BY <1>t, <3>2
        <4> QED
          BY <2>2, <3>2, <4>1, <4>2, AccessAssumption DEF Spent
      <3>5. \A g \in Handlers \ {h} : ~(call[g].pc = "limit" /\ call[g].msg = m)
        BY <1>t, <2>2, AccessAssumption DEF NonceInv, Entering
      <3>6. AcceptedOnce'
        BY <3>1 DEF NonceInv, AcceptedOnce
      <3>7. ASSUME NEW k \in Messages PROVE Spent(k)'
        <4>1. Spent(k)
          BY DEF NonceInv
        <4>2. CASE k = m
          BY <1>t, <3>1, <3>2, <3>4, <4>1, <4>2 DEF Spent, InWindow
        <4>3. CASE k # m
          BY <3>1, <3>3, <4>1, <4>3 DEF Spent, InWindow
        <4> QED
          BY <4>2, <4>3
      <3>8. ASSUME NEW g \in Handlers PROVE Entering(call[g])'
        <4>1. CASE g = h
          BY <3>1, <3>2, <3>3, <3>4, <4>1 DEF Entering, InWindow
        <4>2. CASE g # h
          <5>1. Entering(call[g]) /\ CallInv(call[g])
            BY DEF NonceInv, BaseInv
          <5>2. call[g].pc = "limit" => call[g].msg \in Messages \ {m}
            BY <3>5, <4>2, <5>1 DEF CallInv
          <5> QED
            BY <3>1, <3>3, <4>2, <5>1, <5>2 DEF Entering, InWindow
        <4> QED
          BY <4>1, <4>2
      <3>9. ASSUME NEW f \in Handlers, NEW g \in Handlers, call'[f].pc = "limit",
                   call'[g].pc = "limit", call'[f].msg = call'[g].msg
            PROVE  f = g
        BY <3>3, <3>5, <3>9 DEF NonceInv
      <3> QED
        BY <3>6, <3>7, <3>8, <3>9 DEF NonceInv
    <2> QED
      BY <2>1, <2>2
  <1>5. CASE Admit(h)
    <2> DEFINE m == call[h].msg
    <2>1. call[h].pc = "limit" /\ UNCHANGED <<now, msg, nonce>>
      BY <1>5 DEF Admit
    <2>2. /\ m \in Messages /\ msg[m].op \in Ops \ {"cron"} /\ InWindow(m)
          /\ nonce[m] = now + Window /\ (Len(served[m]) = 0 \/ served[m][1] = msg[m].ts)
      BY <1>t, <2>1 DEF CallInv, TypeOK, Msg, NonceInv, Entering, Unserved
    <2>3. \/ Finish(h) /\ UNCHANGED served
          \/ /\ served' = [served EXCEPT ![m] = Append(@, now)]
             /\ call' = [call EXCEPT ![h].pc = msg[m].op, ![h].touch = "read"]
      BY <1>5 DEF Admit
    <2>4. CASE Finish(h) /\ UNCHANGED served
      BY <1>2, <2>1, <2>4 DEF Finish, Unserved
    <2>5. CASE /\ served' = [served EXCEPT ![m] = Append(@, now)]
               /\ call' = [call EXCEPT ![h].pc = msg[m].op, ![h].touch = "read"]
      <3>1. /\ served'[m] = Append(served[m], now)
            /\ \A k \in Messages \ {m} : served'[k] = served[k]
        BY <1>t, <2>2, <2>5
      <3>2. /\ Len(served'[m]) = Len(served[m]) + 1 /\ Len(served[m]) \in Nat
            /\ served'[m][1] = IF Len(served[m]) = 0 THEN now ELSE served[m][1]
        BY <1>t, <2>2, <3>1
      <3>3. call'[h].pc \notin Unserved /\ \A g \in Handlers \ {h} : call'[g] = call[g]
        BY <1>t, <2>2, <2>5 DEF Call, Ops, Admin, Unserved
      <3>4. AcceptedOnce'
        <4> SUFFICES ASSUME NEW k \in Messages, Len(served'[k]) > 1
                     PROVE  msg[k].op # "cron" /\ served'[k][1] = msg[k].ts
          BY <2>1 DEF AcceptedOnce
        <4>1. CASE k = m
          BY <2>2, <3>2, <4>1
        <4>2. CASE k # m
          BY <3>1, <4>2 DEF NonceInv, AcceptedOnce
        <4> QED
          BY <4>1, <4>2
      <3>5. ASSUME NEW k \in Messages PROVE Spent(k)'
        <4>1. Spent(k)
          BY DEF NonceInv
        <4>2. CASE k = m
          BY <1>t, <2>1, <2>2, <3>2, <4>2 DEF Spent
        <4>3. CASE k # m
          BY <2>1, <3>1, <4>1, <4>3 DEF Spent, InWindow
        <4> QED
          BY <4>2, <4>3
      <3>6. ASSUME NEW g \in Handlers PROVE Entering(call[g])'
        <4>1. CASE g = h
          BY <3>3, <4>1 DEF Entering, Unserved
        <4>2. CASE g # h
          <5>1. Entering(call[g]) /\ CallInv(call[g])
            BY DEF NonceInv, BaseInv
          <5>2. call[g].pc = "limit" => call[g].msg \in Messages \ {m}
            BY <2>1, <4>2, <5>1 DEF CallInv, NonceInv
          <5> QED
            BY <2>1, <3>1, <3>3, <4>2, <5>1, <5>2 DEF Entering, InWindow
        <4> QED
          BY <4>1, <4>2
      <3> QED
        BY <3>3, <3>4, <3>5, <3>6 DEF NonceInv, Unserved
    <2> QED
      BY <2>3, <2>4, <2>5
  <1> QED
    BY <1>1, <1>3, <1>4, <1>5

\* The clock, the clients, the purge, the cron guard and the bootstrap.
LEMMA NonceOutside ==
  ASSUME BaseInv, NonceInv,
         \/ Tick \/ purgeNonces
         \/ \E m \in Messages, op \in Ops, actor, target \in Creds \cup {NoCred} :
              Send(m, op, actor, target)
         \/ \E m \in Messages : CronCall(m)
         \/ \E c \in Creds : Bootstrap(c)
  PROVE  NonceInv'
  <1>t. /\ TypeOK /\ now \in Nat /\ nonce \in [Messages -> Nat]
        /\ served \in [Messages -> Seq(Nat)]
        /\ \A m \in Messages : msg[m].ts \in Nat /\ msg[m].ts <= now
    BY AccessAssumption DEF BaseInv, TypeOK, MsgInv, Msg
  <1>s. \A m \in Messages : Len(served[m]) > 0 => served[m][1] \in Nat
    BY <1>t
  <1>w. Window \in Nat /\ Window > 0
    BY AccessAssumption
  <1>1. CASE Tick
    <2>1. /\ now' = now + 1 /\ UNCHANGED <<msg, nonce, call, served>>
          /\ \A h \in Handlers : call[h].pc \notin Unserved
      BY <1>1 DEF Tick, Unserved
    <2>2. ASSUME NEW m \in Messages PROVE Spent(m)'
      <3>1. Spent(m)
        BY DEF NonceInv
      <3> QED
        BY <1>t, <1>s, <1>w, <2>1, <3>1 DEF Spent, InWindow
    <2> QED
      BY <2>1, <2>2 DEF NonceInv, AcceptedOnce, Entering, Unserved
  <1>2. CASE purgeNonces
    <2>1. /\ UNCHANGED <<now, msg, call, served>>
          /\ \A m \in Messages : nonce'[m] =
               IF msg[m].op # "cron" /\ nonce[m] <= now THEN 0 ELSE nonce[m]
      BY <1>2 DEF purgeNonces
    <2>2. ASSUME NEW m \in Messages PROVE Spent(m)'
      <3>1. Spent(m) /\ nonce[m] \in Nat
        BY <1>t DEF NonceInv
      <3> QED
        BY <1>t, <1>s, <1>w, <2>1, <3>1 DEF Spent, InWindow
    <2>3. ASSUME NEW h \in Handlers PROVE Entering(call[h])'
      <3>1. Entering(call[h]) /\ CallInv(call[h])
        BY DEF NonceInv, BaseInv
      <3>2. call[h].pc = "limit" => nonce'[call[h].msg] = nonce[call[h].msg]
        BY <1>t, <1>w, <2>1, <3>1 DEF Entering, CallInv
      <3> QED
        BY <2>1, <3>1, <3>2 DEF Entering, InWindow
    <2> QED
      BY <2>1, <2>2, <2>3 DEF NonceInv, AcceptedOnce
  <1>3. ASSUME NEW m \in Messages, NEW op \in Ops, NEW actor \in Creds \cup {NoCred},
               NEW target \in Creds \cup {NoCred}, Send(m, op, actor, target)
        PROVE  NonceInv'
    <2>1. /\ msg[m].op = "none" /\ UNCHANGED <<now, nonce, call, served>>
          /\ \A k \in Messages \ {m} : msg'[k] = msg[k]
      BY <1>3, <1>t DEF Send, TypeOK
    <2>2. Len(served[m]) = 0
      BY <2>1 DEF BaseInv, MsgInv
    <2>3. ASSUME NEW k \in Messages PROVE Spent(k)'
      BY <2>1, <2>2 DEF NonceInv, Spent, InWindow
    <2>4. AcceptedOnce'
      BY <2>1, <2>2 DEF NonceInv, AcceptedOnce
    <2>5. ASSUME NEW h \in Handlers PROVE Entering(call[h])'
      <3>1. Entering(call[h]) /\ CallInv(call[h])
        BY DEF NonceInv, BaseInv
      <3>2. call[h].pc \in Unserved => call[h].msg \in Messages \ {m}
        BY <2>1, <3>1 DEF CallInv, Unserved
      <3>3. call[h].pc \in Unserved => msg'[call[h].msg] = msg[call[h].msg]
        BY <2>1, <3>2
      <3> QED
        BY <2>1, <3>1, <3>3 DEF Entering, InWindow, Unserved
    <2> QED
      BY <2>1, <2>3, <2>4, <2>5 DEF NonceInv
  <1>4. ASSUME NEW m \in Messages, CronCall(m) PROVE NonceInv'
    <2> DEFINE new == nonce[m] = 0 \/ nonce[m] < now
    <2>1. /\ msg[m].op = "cron" /\ InWindow(m) /\ UNCHANGED <<now, msg, call>>
          /\ nonce' = tryConsume(m).nonces
          /\ served' = IF tryConsume(m).new THEN [served EXCEPT ![m] = Append(@, now)] ELSE served
      BY <1>4 DEF CronCall
    <2>2. /\ tryConsume(m).new <=> new
          /\ nonce'[m] = IF new THEN now + Window ELSE nonce[m]
          /\ \A k \in Messages \ {m} : nonce'[k] =
               IF msg[k].op = "cron" /\ nonce[k] < now THEN 0 ELSE nonce[k]
      BY <1>t, <2>1 DEF tryConsume
    <2>3. new => Len(served[m]) = 0
      <3>1. Spent(m) /\ nonce[m] \in Nat /\ Len(served[m]) \in Nat
        BY <1>t DEF NonceInv
      <3> QED
        BY <1>t, <1>s, <1>w, <2>1, <3>1 DEF Spent, InWindow
    <2>4. /\ \A k \in Messages \ {m} : served'[k] = served[k]
          /\ new => Len(served'[m]) = 1 /\ served'[m][1] = now
          /\ ~new => served'[m] = served[m]
      BY <1>t, <2>1, <2>2, <2>3
    <2>5. ASSUME NEW k \in Messages PROVE Spent(k)'
      <3>1. Spent(k) /\ nonce[k] \in Nat
        BY <1>t DEF NonceInv
      <3>2. CASE k = m
        <4>1. CASE new
          BY <1>t, <2>1, <2>2, <2>4, <3>2, <4>1 DEF Spent
        <4>2. CASE ~new
          BY <2>1, <2>2, <2>4, <3>1, <3>2, <4>2 DEF Spent, InWindow
        <4> QED
          BY <4>1, <4>2
      <3>3. CASE k # m
        <4>1. /\ served'[k] = served[k] /\ now' = now /\ msg' = msg
              /\ nonce'[k] = nonce[k] \/ nonce[k] < now
          BY <2>1, <2>2, <2>4, <3>3
        <4>2. ASSUME Len(served[k]) > 0, nonce[k] = served[k][1] + Window, nonce[k] < now
              PROVE  ~InWindow(k)
          <5>1. /\ msg[k].ts \in Nat /\ served[k][1] \in Nat /\ now \in Nat
                /\ msg[k].ts <= served[k][1]
            BY <1>t, <1>s, <3>1, <4>2 DEF Spent
          <5> QED
            BY <1>w, <4>2, <5>1 DEF InWindow
        <4>3. InWindow(k)' <=> InWindow(k)
          BY <4>1 DEF InWindow
        <4> QED
          BY <3>1, <4>1, <4>2, <4>3 DEF Spent
      <3> QED
        BY <3>2, <3>3
    <2>6. AcceptedOnce'
      <3> SUFFICES ASSUME NEW k \in Messages, Len(served'[k]) > 1
                   PROVE  msg[k].op # "cron" /\ served'[k][1] = msg[k].ts
        BY <2>1 DEF AcceptedOnce
      <3>1. served'[k] = served[k]
        <4>1. CASE k = m /\ new
          <5> HIDE DEF new
          <5>1. Len(served'[k]) = 1
            BY <2>4, <4>1
          <5> QED
            BY <5>1
        <4>2. CASE ~(k = m /\ new)
          BY <2>4, <4>2
        <4> QED
          BY <4>1, <4>2
      <3> QED
        BY <3>1 DEF NonceInv, AcceptedOnce
    <2>7. ASSUME NEW h \in Handlers PROVE Entering(call[h])'
      <3>1. Entering(call[h]) /\ CallInv(call[h])
        BY DEF NonceInv, BaseInv
      <3>2. call[h].pc \in Unserved =>
              /\ call[h].msg \in Messages \ {m} /\ msg[call[h].msg].op # "cron"
        BY <2>1, <3>1 DEF CallInv, Unserved
      <3>3. call[h].pc \in Unserved => /\ nonce'[call[h].msg] = nonce[call[h].msg]
                                       /\ served'[call[h].msg] = served[call[h].msg]
        BY <2>2, <2>4, <3>2
      <3> QED
        BY <2>1, <3>1, <3>3 DEF Entering, InWindow, Unserved
    <2> QED
      BY <2>1, <2>5, <2>6, <2>7 DEF NonceInv
  <1>5. ASSUME NEW c \in Creds, Bootstrap(c) PROVE NonceInv'
    BY <1>5 DEF Bootstrap, NonceInv, AcceptedOnce, Spent, Entering, InWindow
  <1> QED
    BY <1>1, <1>2, <1>3, <1>4, <1>5

\* Every message is let in once, however often and late it is delivered, to any
\* number of handlers, with purges in between: the HMAC guard's consumeNonce and
\* the cron guard's tryConsume.
THEOREM NonceAcceptedOnce == Spec => []AcceptedOnce
  <1>1. Init => NonceInv
    BY Idle DEF Init, NonceInv, AcceptedOnce, Spent, Entering, Unserved
  <1>2. BaseInv /\ NonceInv /\ [Next]_vars => NonceInv'
    <2> SUFFICES ASSUME BaseInv, NonceInv, [Next]_vars PROVE NonceInv'
      OBVIOUS
    <2>1. ASSUME NEW h \in Handlers, Handle(h) PROVE NonceInv'
      BY <2>1, NonceGuard, NonceServed DEF Handle
    <2>2. CASE UNCHANGED vars
      BY <2>2 DEF vars, NonceInv, AcceptedOnce, Spent, Entering, InWindow
    <2> QED
      BY <2>1, <2>2, NonceOutside DEF Next
  <1>3. NonceInv => AcceptedOnce
    BY DEF NonceInv
  <1> QED
    BY <1>1, <1>2, <1>3, TypeCorrect, PTL DEF Spec
-----------------------------------------------------------------------------
(* Credentials, when the calls that change them do not overlap *)

\* Between the reads and the write that change a credential.
Busy(k) == k.touch = "write" \/ k.pc \in Rotating \cup Revoking

\* Such a call works on what the rows say now, and a revocation leaves an admin.
FreshCopies(k) ==
  /\ ~(k.touch = "write" /\ k.pc \in Rotating \cup Revoking)
  /\ k.touch = "write" => k.old = cred[msg[k.msg].actor]
  /\ k.pc \in {"limiting", "revoked"} => k.copy = cred[msg[k.msg].target]
  /\ k.pc \in Rotating => k.until <= cred[msg[k.msg].target].expires
  /\ k.pc \in {"revoking", "revoked"} =>
       (msg[k.msg].target \in ActiveAdmins => \E c \in ActiveAdmins : c # msg[k.msg].target)

CredInv ==
  /\ \A h \in Handlers : FreshCopies(call[h])
  /\ \A g, h \in Handlers : Busy(call[g]) /\ Busy(call[h]) => g = h

\* What no step of the credentials does.
Safe ==
  /\ ActiveAdmins # {} => ActiveAdmins' # {}
  /\ \A c \in Creds :
       /\ cred[c].status = "revoked" => cred'[c].status = "revoked"
       /\ cred[c].status # "none" => cred'[c].expires <= cred[c].expires

LEMMA UnchangedIsSafe == ASSUME TypeOK, UNCHANGED cred PROVE Safe
  BY DEF TypeOK, Cred, Never, Safe, ActiveAdmins

\* A handler that goes on or ends, with the credentials as they were.
LEMMA CredStays ==
  ASSUME BaseInv, CredInv, NEW h \in Handlers, NEW n \in Call,
         call' = [call EXCEPT ![h] = n], UNCHANGED <<cred, msg>>, FreshCopies(n),
         Busy(n) => Busy(call[h]) \/ \A g \in Handlers : ~Busy(call[g])
  PROVE  CredInv' /\ Safe
  <1>1. TypeOK /\ \A g \in Handlers : call'[g] = IF g = h THEN n ELSE call[g]
    BY DEF BaseInv, TypeOK
  <1>2. ASSUME NEW g \in Handlers PROVE FreshCopies(call[g])'
    <2>1. FreshCopies(call'[g])
      BY <1>1 DEF CredInv
    <2> QED
      BY <2>1 DEF FreshCopies, ActiveAdmins
  <1>3. \A f, g \in Handlers : Busy(call'[f]) /\ Busy(call'[g]) => f = g
    BY <1>1 DEF CredInv
  <1>4. CredInv'
    BY <1>2, <1>3 DEF CredInv, Busy
  <1> QED
    BY <1>1, <1>4, UnchangedIsSafe

\* A new credential, with the handler h going to n.
LEMMA CredAdded ==
  ASSUME BaseInv, CredInv, NEW c \in Free, NEW type, NEW e, NewCred(c, type, e), UNCHANGED msg,
         NEW h \in Handlers, NEW n \in Call, call' = [call EXCEPT ![h] = n],
         FreshCopies(n), n.pc # "idle" \/ n.touch # "none" => n.msg = call[h].msg,
         CallInv(n), Busy(n) => Busy(call[h])
  PROVE  CredInv' /\ Safe
  <1>1. TypeOK /\ \A g \in Handlers : call'[g] = IF g = h THEN n ELSE call[g]
    BY DEF BaseInv, TypeOK
  <1>2. /\ c \in Creds /\ cred[c].status = "none"
        /\ \A x \in Creds \ {c} : cred'[x] = cred[x]
    BY <1>1 DEF Free, NewCred, TypeOK
  <1>3. ActiveAdmins \subseteq ActiveAdmins' /\ c \notin ActiveAdmins
    BY <1>2 DEF ActiveAdmins
  <1>4. \A x \in Creds \ {c} : x \in ActiveAdmins' => x \in ActiveAdmins
    BY <1>2 DEF ActiveAdmins
  <1>5. ASSUME NEW g \in Handlers PROVE FreshCopies(call[g])'
    <2>1. FreshCopies(call'[g]) /\ CallInv(call'[g])
      BY <1>1 DEF CredInv, BaseInv
    <2>2. Busy(call'[g]) =>
            /\ msg[call'[g].msg].actor \in Creds \ {c}
            /\ call'[g].pc \in Rotating \cup Revoking =>
                 msg[call'[g].msg].target \in Creds \ {c}
      BY <1>2, <2>1 DEF Busy, CallInv, BaseInv, MsgInv, Rotating, Revoking
    <2> QED
      BY <1>2, <1>3, <1>4, <2>1, <2>2 DEF FreshCopies, Busy, Rotating, Revoking
  <1>6. \A f, g \in Handlers : Busy(call'[f]) /\ Busy(call'[g]) => f = g
    BY <1>1 DEF CredInv
  <1>7. CredInv'
    BY <1>5, <1>6 DEF CredInv, Busy
  <1>8. \A x \in Creds : cred[x].expires <= cred[x].expires
    BY <1>1, AccessAssumption DEF TypeOK, Cred, Never
  <1> QED
    BY <1>2, <1>3, <1>7, <1>8 DEF Safe

\* Several admins: another one than c.
LEMMA AnotherAdmin ==
  ASSUME Cardinality(ActiveAdmins) > 1, NEW c \in ActiveAdmins
  PROVE  \E x \in ActiveAdmins : x # c
  <1> SUFFICES ASSUME \A x \in ActiveAdmins : x = c PROVE FALSE
    OBVIOUS
  <1>1. ActiveAdmins = {c}
    OBVIOUS
  <1>2. Cardinality({c}) = 1
    BY FS_Singleton
  <1> QED
    BY <1>1, <1>2

\* Every step of a handler keeps the copies fresh.
LEMMA CredHandle ==
  ASSUME BaseInv, CredInv, ~Overlap, NEW h \in Handlers, Handle(h)
  PROVE  CredInv' /\ Safe
  <1> DEFINE k == call[h]  c == Target(h)
  <1>t. /\ TypeOK /\ k \in Call /\ CallInv(k) /\ FreshCopies(k) /\ call \in [Handlers -> Call]
        /\ FreshCopies(IdleCall) /\ ~Busy(IdleCall)
    BY Idle DEF BaseInv, TypeOK, CredInv, FreshCopies, Busy, IdleCall, Rotating, Revoking
  <1>b. BaseInv'
    BY GuardBase, TouchBase, AdminBase DEF Handle
  <1>c. call'[h] \in Call
    BY <1>b DEF BaseInv, TypeOK
  <1>a. Alone => \A g \in Handlers : ~Busy(call[g])
    BY DEF Alone, Busy, Rotating, Revoking
  \* Goto a step that is not busy.
  <1>g. ASSUME NEW s \in {"idle", "insert", "limit"}, Goto(h, s)
        PROVE  /\ After(h, s) \in Call /\ call' = [call EXCEPT ![h] = After(h, s)]
               /\ FreshCopies(After(h, s)) /\ (Busy(After(h, s)) => Busy(k))
    <2>1. /\ After(h, s) \in Call /\ call' = [call EXCEPT ![h] = After(h, s)]
          /\ After(h, s).pc = s /\ After(h, s).touch = k.touch
      BY <1>t, <1>g, AfterFacts DEF Goto
    <2>2. CASE After(h, s) = IdleCall
      BY <1>t, <2>1, <2>2
    <2>3. CASE After(h, s) # IdleCall
      <3>1. After(h, s).msg = k.msg /\ After(h, s).old = k.old
        BY <1>t, <2>3, AfterFacts
      <3> QED
        BY <1>t, <2>1, <3>1 DEF FreshCopies, Busy, Rotating, Revoking
    <2> QED
      BY <2>2, <2>3
  <1>h. ASSUME NEW s \in {"idle", "insert", "limit"}, Goto(h, s), UNCHANGED <<cred, msg>>
        PROVE  CredInv' /\ Safe
    BY <1>g, <1>h, CredStays
  <1>1. ASSUME NEW m \in Messages, Receive(h, m) PROVE CredInv' /\ Safe
    <2>1. /\ call' = [call EXCEPT ![h] = call'[h]] /\ call'[h].pc = "nonce"
          /\ call'[h].touch = "none" /\ UNCHANGED <<cred, msg>>
      BY <1>1, <1>t DEF Receive
    <2> QED
      BY <1>c, <2>1, CredStays DEF FreshCopies, Busy, Rotating, Revoking
  <1>2. CASE FindNonce(h) \/ InsertNonce(h) \/ Use(h)
    BY <1>2, <1>h DEF FindNonce, InsertNonce, Use, Finish
  <1>3. CASE Admit(h)
    <2> DEFINE m == k.msg
    <2>1. \/ Finish(h)
          \/ call' = [call EXCEPT ![h].pc = msg[m].op, ![h].touch = "read"]
      BY <1>3 DEF Admit
    <2>2. k.pc = "limit" /\ UNCHANGED <<cred, msg>>
      BY <1>3 DEF Admit
    <2>3. CASE Finish(h)
      BY <1>h, <2>2, <2>3 DEF Finish
    <2>4. CASE call' = [call EXCEPT ![h].pc = msg[m].op, ![h].touch = "read"]
      <3>1. msg[m].op \in Ops \cup {"none"}
        BY <1>t, <2>2 DEF CallInv, TypeOK, Msg
      <3>2. /\ call' = [call EXCEPT ![h] = call'[h]] /\ call'[h].pc = msg[m].op
            /\ call'[h].touch = "read"
        BY <1>t, <2>4 DEF Call
      <3> QED
        BY <1>c, <2>2, <3>1, <3>2, CredStays DEF FreshCopies, Busy, Rotating, Revoking, Ops, Admin
    <2> QED
      BY <2>1, <2>3, <2>4
  <1>4. CASE TouchRead(h)
    <2>1. /\ call' = [call EXCEPT ![h] = call'[h]] /\ call'[h].pc = k.pc /\ k.touch = "read"
          /\ call'[h].msg = k.msg /\ call'[h].old = cred[msg[k.msg].actor]
          /\ Alone /\ UNCHANGED <<cred, msg>>
      BY <1>4, <1>t DEF TouchRead, Call
    <2>2. k.pc \notin Rotating \cup Revoking
      BY <1>a, <2>1 DEF Busy
    <2>3. FreshCopies(call'[h])
      BY <2>1, <2>2 DEF FreshCopies, Rotating, Revoking
    <2> QED
      BY <1>a, <1>c, <2>1, <2>3, CredStays
  <1>5. CASE TouchWrite(h)
    <2> DEFINE a == msg[k.msg].actor
    <2>1. /\ k.touch = "write" /\ cred' = [cred EXCEPT ![a] = k.old] /\ UNCHANGED msg
          /\ call' = [call EXCEPT ![h] = call'[h]]
          /\ k.pc = "idle" => call'[h] = IdleCall
          /\ k.pc # "idle" => call'[h] = [k EXCEPT !.touch = "none", !.old = NoRow]
      BY <1>5, <1>t DEF TouchWrite
    <2>2. UNCHANGED cred
      BY <1>t, <2>1 DEF FreshCopies, TypeOK
    <2>3. k.pc \notin Rotating \cup Revoking
      BY <1>t, <2>1 DEF FreshCopies
    <2>4. FreshCopies(call'[h]) /\ ~Busy(call'[h])
      <3>1. CASE k.pc = "idle"
        BY <1>t, <2>1, <3>1
      <3>2. CASE k.pc # "idle"
        <4>1. call'[h].pc = k.pc /\ call'[h].touch = "none"
          BY <1>t, <2>1, <3>2 DEF Call
        <4> QED
          BY <2>3, <4>1 DEF FreshCopies, Busy, Rotating, Revoking
      <3> QED
        BY <3>1, <3>2
    <2> QED
      BY <1>c, <2>1, <2>2, <2>4, CredStays
  <1>6. CASE Create(h)
    <2>1. PICK x \in Free, type \in {"api", "admin"}, e \in {now + Grace, Never} :
            NewCred(x, type, e)
      BY <1>6 DEF Create
    <2>2. k.pc = "create" /\ Goto(h, "idle") /\ UNCHANGED msg
      BY <1>6 DEF Create, Finish
    <2>3. /\ CallInv(After(h, "idle"))
          /\ After(h, "idle").pc # "idle" \/ After(h, "idle").touch # "none" =>
               After(h, "idle").msg = k.msg
      BY <1>t, <2>2, AfterFacts, AfterInv, Idle
    <2> QED
      BY <1>g, <2>1, <2>2, <2>3, CredAdded
  <1>7. CASE Rotate(h)
    <2>1. /\ call' = [call EXCEPT ![h] = call'[h]] /\ call'[h].pc = "rotated" /\ k.pc = "rotate"
          /\ call'[h].msg = k.msg /\ call'[h].until = effectiveExpiry(cred[c])
          /\ call'[h].touch = k.touch /\ Alone /\ UNCHANGED <<cred, msg>>
      BY <1>7, <1>t DEF Rotate, Call
    <2>2. effectiveExpiry(cred[c]) <= cred[c].expires
      BY <1>t, <2>1, ServedFacts, EffectiveExpiry
    <2>3. k.touch # "write"
      BY <1>a, <2>1 DEF Busy
    <2>4. FreshCopies(call'[h])
      BY <2>1, <2>2, <2>3 DEF FreshCopies, Target, Rotating
    <2> QED
      BY <1>a, <1>c, <2>1, <2>4, CredStays
  <1>8. CASE RotateCreate(h)
    <2>1. k.pc = "rotated" /\ UNCHANGED msg
      BY <1>8 DEF RotateCreate
    <2>2. CASE Finish(h) /\ UNCHANGED cred
      BY <1>h, <2>1, <2>2 DEF Finish
    <2>3. ASSUME NEW x \in Free, NewCred(x, k.copy.type, Never), Goto(h, "limitOld")
          PROVE  CredInv' /\ Safe
      <3> DEFINE n == After(h, "limitOld")
      <3>1. /\ n \in Call /\ n.pc = "limitOld" /\ n.touch = k.touch /\ n.msg = k.msg
            /\ n.until = k.until /\ call' = [call EXCEPT ![h] = n] /\ CallInv(n)
            /\ n.old = k.old
        BY <1>t, <2>1, <2>3, AfterFacts, AfterInv, Idle DEF Goto, Rotating
      <3>2. FreshCopies(n) /\ Busy(k)
        BY <1>t, <2>1, <3>1 DEF FreshCopies, Busy, Rotating, Revoking
      <3> QED
        BY <2>1, <2>3, <3>1, <3>2, CredAdded
    <2> QED
      BY <1>8, <2>2, <2>3 DEF RotateCreate
  <1>9. CASE ReadRow(h)
    <2>1. /\ call' = [call EXCEPT ![h] = call'[h]] /\ k.pc \in {"limitOld", "revoking"}
          /\ call'[h].pc = (IF k.pc = "limitOld" THEN "limiting" ELSE "revoked")
          /\ call'[h].msg = k.msg /\ call'[h].copy = cred[c] /\ call'[h].until = k.until
          /\ call'[h].touch = k.touch /\ call'[h].old = k.old /\ UNCHANGED <<cred, msg>>
      BY <1>9, <1>t DEF ReadRow, Call
    <2>2. FreshCopies(call'[h]) /\ Busy(k)
      BY <1>t, <2>1 DEF FreshCopies, Busy, Target, Rotating, Revoking
    <2> QED
      BY <1>c, <2>1, <2>2, CredStays
  <1>10. CASE Revoke(h)
    <2>1. /\ call' = [call EXCEPT ![h] = call'[h]] /\ k.pc = "revoke"
          /\ call'[h].pc = IF cred[c].type = "admin" /\ cred[c].status = "active"
                             THEN "check" ELSE "revoking"
          /\ call'[h].msg = k.msg /\ call'[h].touch = k.touch
          /\ Alone /\ UNCHANGED <<cred, msg>>
      BY <1>10, <1>t DEF Revoke, Call
    <2>2. k.touch # "write"
      BY <1>a, <2>1 DEF Busy
    <2>3. FreshCopies(call'[h])
      BY <2>1, <2>2 DEF FreshCopies, Target, ActiveAdmins, Rotating, Revoking
    <2> QED
      BY <1>a, <1>c, <2>1, <2>3, CredStays
  <1>11. CASE RevokeCheck(h)
    <2>1. k.pc = "check" /\ UNCHANGED <<cred, msg>>
      BY <1>11 DEF RevokeCheck
    <2>2. CASE ~Checked(h)
      BY <1>h, <1>11, <2>1, <2>2 DEF RevokeCheck
    <2>3. CASE Checked(h)
      <3> DEFINE n == After(h, "revoking")
      <3>1. /\ n \in Call /\ n.pc = "revoking" /\ n.touch = k.touch /\ n.msg = k.msg
            /\ call' = [call EXCEPT ![h] = n] /\ n.old = k.old
        BY <1>11, <1>t, <2>1, <2>3, AfterFacts, Idle DEF RevokeCheck, Goto
      <3>2. c \in ActiveAdmins => \E x \in ActiveAdmins : x # c
        BY <2>3, AnotherAdmin DEF Checked
      <3>3. FreshCopies(n) /\ Busy(k)
        BY <1>t, <2>1, <3>1, <3>2 DEF FreshCopies, Busy, Target, Rotating, Revoking
      <3> HIDE DEF n
      <3> QED
        BY <2>1, <3>1, <3>3, CredStays
    <2> QED
      BY <2>2, <2>3
  <1>12. CASE Crash(h)
    <2>1. call' = [call EXCEPT ![h] = IdleCall] /\ UNCHANGED <<cred, msg>>
      BY <1>12 DEF Crash
    <2> QED
      BY <1>t, <2>1, Rows, CredStays
  <1>13. CASE RotateLimit(h) \/ RevokeWrite(h)
    <2> DEFINE row == IF k.pc = "limiting" THEN [k.copy EXCEPT !.expires = k.until]
                                            ELSE [k.copy EXCEPT !.status = "revoked"]
    <2>1. /\ k.pc \in {"limiting", "revoked"} /\ Goto(h, "idle") /\ UNCHANGED msg
          /\ cred' = [cred EXCEPT ![c] = row]
      BY <1>13 DEF RotateLimit, RevokeWrite, Finish
    <2>2. /\ c \in Creds /\ cred[c] \in Cred /\ k.copy = cred[c] /\ k.touch # "write"
          /\ k.pc = "limiting" => k.until <= cred[c].expires
      BY <1>t, <2>1, ServedFacts DEF FreshCopies, Target, Rotating, Revoking
    <2>3. /\ cred'[c] = row /\ \A x \in Creds \ {c} : cred'[x] = cred[x]
      BY <1>t, <2>1, <2>2 DEF TypeOK
    <2>4. \A g \in Handlers : ~Busy(call'[g])
      <3>1. Busy(k) /\ ~Busy(After(h, "idle"))
        BY <1>t, <2>1, <2>2, AfterFacts DEF Busy, Rotating, Revoking
      <3>2. \A g \in Handlers : call'[g] = IF g = h THEN After(h, "idle") ELSE call[g]
        BY <1>t, <2>1 DEF Goto
      <3> QED
        BY <3>1, <3>2 DEF CredInv
    <2>5. CredInv'
      <3>1. ASSUME NEW g \in Handlers PROVE FreshCopies(call[g])'
        BY <2>4 DEF FreshCopies, Busy, Rotating, Revoking
      <3> QED
        BY <2>4, <3>1 DEF CredInv, Busy
    <2>6. \A x \in Creds : cred[x].expires <= cred[x].expires
      BY <1>t, AccessAssumption DEF TypeOK, Cred, Never
    <2>7. CASE k.pc = "limiting"
      <3>1. row.type = cred[c].type /\ row.status = cred[c].status /\ row.expires = k.until
        BY <2>2, <2>7 DEF Cred
      <3>2. ActiveAdmins' = ActiveAdmins
        <4> HIDE DEF row
        <4>1. \A x \in Creds : cred'[x].type = cred[x].type /\ cred'[x].status = cred[x].status
          BY <2>3, <3>1
        <4> QED
          BY <4>1 DEF ActiveAdmins
      <3> QED
        BY <2>2, <2>3, <2>5, <2>6, <2>7, <3>1, <3>2 DEF Safe
    <2>8. CASE k.pc = "revoked"
      <3>1. row.status = "revoked" /\ row.expires = cred[c].expires
        BY <2>2, <2>8 DEF Cred
      <3>2. ActiveAdmins' = ActiveAdmins \ {c}
        <4> HIDE DEF row, c
        <4>1. cred'[c].status # "active"
          BY <2>3, <3>1
        <4>2. \A x \in Creds : x \in ActiveAdmins' <=> x \in ActiveAdmins \ {c}
          BY <2>3, <4>1 DEF ActiveAdmins
        <4>3. ActiveAdmins' \subseteq Creds /\ ActiveAdmins \subseteq Creds
          BY DEF ActiveAdmins
        <4> QED
          BY <4>2, <4>3
      <3>3. c \in ActiveAdmins => \E x \in ActiveAdmins : x # c
        BY <1>t, <2>8 DEF FreshCopies, Target
      <3> QED
        BY <2>3, <2>5, <2>6, <3>1, <3>2, <3>3 DEF Safe
    <2> QED
      BY <2>1, <2>7, <2>8
  <1> QED
    BY <1>1, <1>2, <1>3, <1>4, <1>5, <1>6, <1>7, <1>8, <1>9, <1>10, <1>11, <1>12, <1>13 DEF Handle

LEMMA CredNext ==
  ASSUME ~Overlap
  PROVE  BaseInv /\ CredInv /\ [Next]_vars => CredInv' /\ (Safe \/ UNCHANGED vars)
  <1> SUFFICES ASSUME BaseInv, CredInv, [Next]_vars
               PROVE  CredInv' /\ (Safe \/ UNCHANGED vars)
    OBVIOUS
  <1>t. TypeOK
    BY DEF BaseInv
  <1>1. ASSUME NEW h \in Handlers, Handle(h) PROVE CredInv' /\ Safe
    BY <1>1, CredHandle
  <1>2. CASE UNCHANGED vars
    BY <1>2 DEF vars, CredInv, FreshCopies, Busy, ActiveAdmins
  <1>3. CASE Tick \/ purgeNonces \/ \E m \in Messages : CronCall(m)
    <2>1. UNCHANGED <<cred, msg, call>>
      BY <1>3 DEF Tick, purgeNonces, CronCall
    <2>2. CredInv'
      BY <2>1 DEF CredInv, FreshCopies, Busy, ActiveAdmins
    <2> QED
      BY <1>t, <2>1, <2>2, UnchangedIsSafe
  <1>4. ASSUME NEW m \in Messages, NEW op \in Ops, NEW actor \in Creds \cup {NoCred},
               NEW target \in Creds \cup {NoCred}, Send(m, op, actor, target)
        PROVE  CredInv' /\ Safe
    <2>1. /\ msg[m].op = "none" /\ UNCHANGED <<cred, call>>
          /\ \A x \in Messages \ {m} : msg'[x] = msg[x]
      BY <1>4, <1>t DEF Send, TypeOK
    <2>2. ASSUME NEW h \in Handlers PROVE FreshCopies(call[h])'
      <3>1. FreshCopies(call[h]) /\ CallInv(call[h])
        BY DEF CredInv, BaseInv
      <3>2. Busy(call[h]) => msg'[call[h].msg] = msg[call[h].msg]
        BY <2>1, <3>1 DEF Busy, CallInv, Rotating, Revoking
      <3> QED
        BY <2>1, <3>1, <3>2 DEF FreshCopies, Busy, ActiveAdmins, Rotating, Revoking
    <2>3. CredInv'
      BY <2>1, <2>2 DEF CredInv, Busy
    <2> QED
      BY <1>t, <2>1, <2>3, UnchangedIsSafe
  <1>5. ASSUME NEW c \in Creds, Bootstrap(c) PROVE CredInv' /\ Safe
    <2>1. c \in Free /\ NewCred(c, "admin", Never) /\ UNCHANGED <<msg, call>>
      BY <1>5 DEF Bootstrap
    <2>2. CASE Handlers = {}
      <3>1. CredInv'
        BY <2>2 DEF CredInv
      <3>2. \A x \in Creds \ {c} : cred'[x] = cred[x]
        BY <1>t, <2>1, Fresh, Expiries
      <3>3. \A x \in Creds : cred[x].expires <= cred[x].expires
        BY <1>t, AccessAssumption DEF TypeOK, Cred, Never
      <3>4. ActiveAdmins = {} /\ cred[c].status = "none"
        BY <1>5, <2>1 DEF Bootstrap, Free
      <3> QED
        BY <3>1, <3>2, <3>3, <3>4 DEF Safe
    <2>3. ASSUME NEW h \in Handlers PROVE CredInv' /\ Safe
      <3>1. /\ call[h] \in Call /\ call' = [call EXCEPT ![h] = call[h]]
            /\ CallInv(call[h]) /\ FreshCopies(call[h])
        BY <1>t, <2>1 DEF TypeOK, BaseInv, CredInv
      <3> QED
        BY <2>1, <3>1, CredAdded
    <2> QED
      BY <2>2, <2>3
  <1> QED
    BY <1>1, <1>2, <1>3, <1>4, <1>5 DEF Next

\* When the calls that change credentials do not overlap, every step of them
\* works on rows as they are.
LEMMA CredInvariance ==
  ASSUME ~Overlap
  PROVE  Spec => [](BaseInv /\ CredInv)
  <1>1. Init => CredInv
    BY Idle DEF Init, CredInv, FreshCopies, Busy, Rotating, Revoking
  <1>2. BaseInv /\ CredInv /\ [Next]_vars => CredInv'
    BY CredNext
  <1> QED
    BY <1>1, <1>2, TypeCorrect, PTL DEF Spec

\* revoke's check of the last active admin works for any number of credentials
\* and calls, as long as the calls that change credentials do not overlap.
THEOREM AnAdminRemains ==
  ASSUME ~Overlap
  PROVE  Spec => AdminRemains
  <1>1. BaseInv /\ CredInv /\ [Next]_vars => [ActiveAdmins # {} => ActiveAdmins' # {}]_vars
    BY CredNext DEF Safe
  <1> QED
    BY <1>1, CredInvariance, PTL DEF Spec, AdminRemains

\* Under the same condition, revocations are final and expiries only come closer:
\* rotate's effectiveExpiry and the whole-row updates.
THEOREM LivesShorten ==
  ASSUME ~Overlap
  PROVE  Spec => LivesOnlyShorten
  <1>1. BaseInv /\ CredInv /\ [Next]_vars =>
          [\A c \in Creds :
             /\ cred[c].status = "revoked" => cred'[c].status = "revoked"
             /\ cred[c].status # "none" => cred'[c].expires <= cred[c].expires]_vars
    BY CredNext DEF Safe
  <1> QED
    BY <1>1, CredInvariance, PTL DEF Spec, LivesOnlyShorten
===============================================================================
