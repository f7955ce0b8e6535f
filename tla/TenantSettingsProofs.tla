------------------------ MODULE TenantSettingsProofs ------------------------
(***************************************************************************)
(* Properties of TenantSettings for any number of administrators, readers  *)
(* and emissions, any TTLs and any number of attempts.                     *)
(***************************************************************************)
EXTENDS TenantSettings, SequenceTheorems, TLAPS

\* Types of the caches and of the history, which TypeOK leaves out.
Types ==
  /\ TypeOK
  /\ config \in [Processes -> [value: Nat, expires: Nat]]
  /\ signature \in [Processes -> [value: Admins \cup {Nobody}, expires: Nat]]
  /\ token \in [Processes -> [at: Nat, expires: Nat]]
  /\ stamped \in [Emitters -> [profile: Nat, rev: Nat]]

\* The bounds are positive.
LEMMA Bounds ==
  /\ ConfigTTL \in Nat /\ SignatureTTL \in Nat /\ TokenTTL \in Nat /\ SiiValidity \in Nat
  /\ MaxTries \in Nat /\ MaxTime \in Nat
  /\ ConfigTTL > 0 /\ SignatureTTL > 0 /\ TokenTTL > 0 /\ MaxTime > 0
  /\ TokenTTL <= SiiValidity
  BY SettingsAssumption

\* The initial values and idle calls.
LEMMA IdleTypes ==
  /\ IdleAdmin \in Admin /\ IdleReader \in Reader /\ IdleEmit \in Emit
  /\ Empty \in [value: Nat, expires: Nat]
  /\ NoSignature \in [value: Admins \cup {Nobody}, expires: Nat]
  /\ NoToken \in [at: Nat, expires: Nat]
  <1>1. NoConfig \in Config
    BY DEF NoConfig, Config
  <1> QED
    BY <1>1 DEF IdleAdmin, Admin, Ops, IdleReader, Reader, Processes, IdleEmit, Emit,
       Empty, NoSignature, NoToken

LEMMA InitTypes == Init => Types
  <1> SUFFICES ASSUME Init PROVE Types
    OBVIOUS
  <1>1. log \in Seq(Config) /\ Len(log) = 1
    <2>1. PICK n \in 0..1 : log = <<[NoConfig EXCEPT !.cafs = n]>>
      BY DEF Init
    <2>2. [NoConfig EXCEPT !.cafs = n] \in Config
      BY DEF NoConfig, Config
    <2> QED
      BY <2>1, <2>2
  <1>2. ended = <<>> /\ ended \in Seq(Nat) /\ Len(ended) = 0
    BY DEF Init
  <1> QED
    BY <1>1, <1>2, IdleTypes, Bounds DEF Init, Types, TypeOK

\* The row has a value, and a commit adds one.
LEMMA Logged ==
  ASSUME Types
  PROVE  /\ Current \in Nat /\ Current >= 1 /\ Len(ended) = Current - 1
         /\ \A i \in 1..Current : log[i] \in Config
         /\ \A i \in 1..(Current - 1) : ended[i] \in Nat
         /\ Len(profiles) \in Nat
  BY DEF Types, TypeOK, Current

LEMMA Written ==
  ASSUME Types, NEW row \in Config, Write(row)
  PROVE  /\ log' \in Seq(Config) /\ ended' \in Seq(Nat) /\ Len(log') = Len(ended') + 1
         /\ Current' = Current + 1 /\ log'[Current + 1] = row
         /\ \A i \in 1..Current : log'[i] = log[i]
         /\ \A i \in 1..(Current - 1) : ended'[i] = ended[i]
         /\ ended'[Current] = now
  <1>1. log \in Seq(Config) /\ ended \in Seq(Nat) /\ Len(log) = Len(ended) + 1 /\ now \in Nat
    BY DEF Types, TypeOK
  <1>2. log' = Append(log, row) /\ ended' = Append(ended, now)
    BY DEF Write
  <1>3. /\ log' \in Seq(Config) /\ Len(log') = Len(log) + 1 /\ log'[Len(log) + 1] = row
        /\ \A i \in 1..Len(log) : log'[i] = log[i]
    BY <1>1, <1>2, AppendProperties
  <1>4. /\ ended' \in Seq(Nat) /\ Len(ended') = Len(ended) + 1 /\ ended'[Len(ended) + 1] = now
        /\ \A i \in 1..Len(ended) : ended'[i] = ended[i]
    BY <1>1, <1>2, AppendProperties
  <1>5. Len(log) \in Nat /\ Len(ended) \in Nat
    BY <1>1
  <1> QED
    BY <1>1, <1>3, <1>4, <1>5 DEF Current

\* What an administrator's call makes of the row.
LEMMA MutatedTypes ==
  ASSUME Types, NEW a \in Admins, NEW row \in Config
  PROVE  Mutated(a, row) \in Config
  <1>1. admin[a] \in Admin
    BY DEF Types, TypeOK
  <1>2. saveSignature(a, row) \in Config
    <2>1. row.archived \cup ({row.sig} \ {Nobody}) \in SUBSET Admins
      BY DEF Config
    <2> QED
      BY <2>1 DEF saveSignature, Config
  <1>3. uploadCaf(row) \in Config
    BY DEF uploadCaf, Config
  <1>4. saveOther(a, row) \in Config
    <2>1. row.other \cup {a} \in SUBSET Admins
      BY DEF Config
    <2> QED
      BY <2>1 DEF saveOther, Config
  <1>5. setActiveBrandProfileId(a, row) \in Config
    BY <1>1 DEF setActiveBrandProfileId, Config, Admin
  <1> QED
    BY <1>1, <1>2, <1>3, <1>4, <1>5 DEF Mutated, Admin, Ops

\* A call moves on to another step.
LEMMA AdminAt ==
  ASSUME NEW f \in [Admins -> Admin], NEW a \in Admins,
         NEW pc \in {"idle", "find", "insert", "lock", "commit", "invalidate", "done", "failed"}
  PROVE  [f EXCEPT ![a].pc = pc] \in [Admins -> Admin]
  BY DEF Admin

LEMMA ReaderSigns ==
  ASSUME NEW f \in [Readers -> Reader], NEW r \in Readers, NEW t \in Nat
  PROVE  [f EXCEPT ![r].pc = "token", ![r].issued = t] \in [Readers -> Reader]
  <1>1. [f[r] EXCEPT !.pc = "token", !.issued = t] \in Reader
    BY DEF Reader
  <1> QED
    BY <1>1
-----------------------------------------------------------------------------
\* Types: administrators and the clock.
LEMMA AdminTypes ==
  ASSUME Types,
         \/ Tick
         \/ \E a \in Admins :
              \/ \E op \in Ops : StartAdmin(a, op)
              \/ FindVersion(a) \/ InsertVersion(a) \/ TakeLock(a)
              \/ MutateConfig(a) \/ InvalidateCache(a)
  PROVE  Types'
  <1> USE DEF Types, TypeOK
  <1>1. CASE Tick
    BY <1>1, Bounds DEF Tick
  <1>2. ASSUME NEW a \in Admins, NEW op \in Ops, StartAdmin(a, op) PROVE Types'
    <2>1. [IdleAdmin EXCEPT !.op = op, !.pc = IF op = "brand" THEN "find" ELSE "lock"] \in Admin
      BY DEF IdleAdmin, Admin, Ops
    <2> QED
      BY <1>2, <2>1 DEF StartAdmin
  <1>3. ASSUME NEW a \in Admins, FindVersion(a) PROVE Types'
    <2>1. NextVersion \in Nat
      BY DEF NextVersion
    <2>2. [admin[a] EXCEPT !.pc = "insert", !.version = NextVersion,
                           !.tries = admin[a].tries + 1] \in Admin
      <3>1. admin[a] \in Admin
        OBVIOUS
      <3> HIDE DEF Types, TypeOK
      <3>2. admin[a].tries + 1 \in Nat
        BY <3>1 DEF Admin
      <3> QED
        BY <2>1, <3>1, <3>2 DEF Admin
    <2>3. admin' = [admin EXCEPT ![a] =
            [admin[a] EXCEPT !.pc = "insert", !.version = NextVersion,
                             !.tries = admin[a].tries + 1]]
      BY <1>3 DEF FindVersion
    <2>4. admin' \in [Admins -> Admin]
      BY <2>2, <2>3
    <2> QED
      BY <1>3, <2>4 DEF FindVersion
  <1>4. ASSUME NEW a \in Admins, InsertVersion(a) PROVE Types'
    <2>1. CASE admin[a].version \in 1..Len(profiles)
      <3>1. RetryOrFail(a) \in Admin
        <4>1. admin[a] \in Admin
          OBVIOUS
        <4> HIDE DEF Types, TypeOK
        <4> QED
          BY <4>1 DEF RetryOrFail, Admin
      <3> QED
        BY <1>4, <2>1, <3>1 DEF InsertVersion
    <2>2. CASE admin[a].version \notin 1..Len(profiles)
      <3>1. profiles' = Append(profiles, a) /\ admin' = [admin EXCEPT ![a].pc = "lock"]
        BY <1>4, <2>2 DEF InsertVersion
      <3>2. profiles' \in Seq(Admins \cup Emitters)
        BY <3>1, AppendProperties
      <3>3. admin' \in [Admins -> Admin]
        BY <3>1, AdminAt
      <3> QED
        BY <1>4, <3>2, <3>3 DEF InsertVersion
    <2> QED
      BY <2>1, <2>2
  <1>5. ASSUME NEW a \in Admins, TakeLock(a) PROVE Types'
    <2>1. admin' \in [Admins -> Admin]
      BY <1>5, AdminAt DEF TakeLock
    <2> QED
      BY <1>5, <2>1 DEF TakeLock
  <1>6. ASSUME NEW a \in Admins, MutateConfig(a) PROVE Types'
    <2>1. Mutated(a, Fresh(a)) \in Config
      <3>1. Fresh(a) \in Config
        BY Logged DEF Fresh
      <3> QED
        BY <3>1, MutatedTypes
    <2>2. admin' \in [Admins -> Admin]
      BY <1>6, AdminAt DEF MutateConfig
    <2>3. Write(Mutated(a, Fresh(a)))
      BY <1>6 DEF MutateConfig
    <2>4. log' \in Seq(Config) /\ ended' \in Seq(Nat) /\ Len(log') = Len(ended') + 1
      BY <2>1, <2>3, Written
    <2> QED
      BY <1>6, <2>2, <2>4 DEF MutateConfig
  <1>7. ASSUME NEW a \in Admins, InvalidateCache(a) PROVE Types'
    <2>1. admin' \in [Admins -> Admin]
      BY <1>7, AdminAt DEF InvalidateCache
    <2>2. /\ config' \in [Processes -> [value: Nat, expires: Nat]]
          /\ signature' \in [Processes -> [value: Admins \cup {Nobody}, expires: Nat]]
      BY <1>7, IdleTypes DEF InvalidateCache, Processes
    <2> QED
      BY <1>7, <2>1, <2>2 DEF InvalidateCache
  <1> QED
    BY <1>1, <1>2, <1>3, <1>4, <1>5, <1>6, <1>7

\* Types: an answer to a reader.
LEMMA GotTypes ==
  ASSUME Types, NEW r \in Readers, NEW p \in Processes, NEW wants \in {"config", "signature"},
         NEW rev \in 1..Current, Got(r, p, wants, rev)
  PROVE  /\ reader' \in [Readers -> Reader]
         /\ signature' \in [Processes -> [value: Admins \cup {Nobody}, expires: Nat]]
  <1>1. /\ reader \in [Readers -> Reader] /\ now \in Nat
        /\ signature \in [Processes -> [value: Admins \cup {Nobody}, expires: Nat]]
    BY DEF Types, TypeOK
  <1>2. log[rev] \in Config /\ rev \in Nat
    BY Logged
  <1>3. log[rev].sig \in Admins \cup {Nobody}
    BY <1>2 DEF Config
  <1>4. [IdleReader EXCEPT !.pc = "gotConfig", !.rev = rev] \in Reader
    BY <1>2 DEF IdleReader, Reader, Processes
  <1>5. [IdleReader EXCEPT !.pc = "gotSignature", !.at = p, !.sig = log[rev].sig] \in Reader
    BY <1>3 DEF IdleReader, Reader, Processes
  <1>6. [value |-> log[rev].sig, expires |-> SignatureExpiry]
          \in [value: Admins \cup {Nobody}, expires: Nat]
    BY <1>1, <1>3, Bounds DEF SignatureExpiry
  <1> QED
    BY <1>1, <1>4, <1>5, <1>6 DEF Got

\* Types: readers.
LEMMA ReaderTypes ==
  ASSUME Types, NEW r \in Readers,
         \/ \E p \in Processes, wants \in {"config", "signature"} :
              ReadCached(r, p, wants) \/ ReadRow(r, p, wants)
         \/ \E p \in Processes : ReadSignature(r, p)
         \/ Store(r) \/ GetToken(r) \/ SignSeed(r) \/ RenewToken(r) \/ RenewalFails(r) \/ Return(r),
         \A p \in Processes : Live(config[p]) => config[p].value \in 1..Current,
         reader[r].pc = "store" => reader[r].rev \in 1..Current
  PROVE  Types'
  <1>1. /\ reader \in [Readers -> Reader] /\ now \in Nat
        /\ config \in [Processes -> [value: Nat, expires: Nat]]
        /\ signature \in [Processes -> [value: Admins \cup {Nobody}, expires: Nat]]
        /\ token \in [Processes -> [at: Nat, expires: Nat]]
    BY DEF Types, TypeOK
  <1>2. reader[r].at \in Processes /\ reader[r].wants \in {"config", "signature"}
        /\ reader[r].rev \in Nat /\ reader[r].issued \in Nat
    BY <1>1 DEF Reader
  <1> DEFINE TypesOfReaders ==
               /\ reader' \in [Readers -> Reader]
               /\ config' \in [Processes -> [value: Nat, expires: Nat]]
               /\ signature' \in [Processes -> [value: Admins \cup {Nobody}, expires: Nat]]
               /\ token' \in [Processes -> [at: Nat, expires: Nat]]
  <1>3. ASSUME NEW p \in Processes, NEW wants \in {"config", "signature"}, ReadCached(r, p, wants)
        PROVE  TypesOfReaders
    <2>1. config[p].value \in 1..Current /\ Got(r, p, wants, config[p].value)
      BY <1>3 DEF ReadCached
    <2>2. /\ reader' \in [Readers -> Reader]
          /\ signature' \in [Processes -> [value: Admins \cup {Nobody}, expires: Nat]]
      BY <2>1, GotTypes
    <2>3. config' = config /\ token' = token
      BY <1>3 DEF ReadCached
    <2> QED
      BY <1>1, <2>2, <2>3
  <1>4. ASSUME NEW p \in Processes, NEW wants \in {"config", "signature"}, ReadRow(r, p, wants)
        PROVE  TypesOfReaders
    <2>1. [IdleReader EXCEPT !.pc = "store", !.at = p, !.wants = wants, !.rev = Current] \in Reader
      BY Logged DEF IdleReader, Reader, Processes
    <2> QED
      BY <1>1, <1>4, <2>1 DEF ReadRow
  <1>5. ASSUME NEW p \in Processes, ReadSignature(r, p) PROVE TypesOfReaders
    <2>1. signature[p].value \in Admins \cup {Nobody}
      BY <1>1
    <2>2. [IdleReader EXCEPT !.pc = "gotSignature", !.at = p, !.sig = signature[p].value] \in Reader
      BY <2>1 DEF IdleReader, Reader, Processes
    <2> QED
      BY <1>1, <1>5, <2>2 DEF ReadSignature
  <1>6. ASSUME Store(r) PROVE TypesOfReaders
    <2>1. [value |-> reader[r].rev, expires |-> Expiry] \in [value: Nat, expires: Nat]
      BY <1>1, <1>2, Bounds DEF Expiry
    <2>2. /\ config' = [config EXCEPT ![reader[r].at] = [value |-> reader[r].rev, expires |-> Expiry]]
          /\ Got(r, reader[r].at, reader[r].wants, reader[r].rev)
          /\ reader[r].pc = "store" /\ token' = token
      BY <1>6 DEF Store
    <2>3. config' \in [Processes -> [value: Nat, expires: Nat]]
      BY <1>1, <1>2, <2>1, <2>2
    <2>4. reader[r].rev \in 1..Current
      BY <2>2
    <2>5. /\ reader' \in [Readers -> Reader]
          /\ signature' \in [Processes -> [value: Admins \cup {Nobody}, expires: Nat]]
      BY <1>2, <2>2, <2>4, GotTypes
    <2> QED
      BY <1>1, <2>2, <2>3, <2>5
  <1>7. ASSUME GetToken(r) PROVE TypesOfReaders
    <2>1. token[reader[r].at].at \in Nat
      BY <1>1, <1>2
    <2>2. [IdleReader EXCEPT !.pc = "gotToken", !.issued = token[reader[r].at].at] \in Reader
      BY <2>1 DEF IdleReader, Reader, Processes
    <2> QED
      BY <1>1, <1>7, <2>2 DEF GetToken
  <1>8. ASSUME SignSeed(r) PROVE TypesOfReaders
    <2>1. reader' = [reader EXCEPT ![r].pc = "token", ![r].issued = now]
      BY <1>8 DEF SignSeed
    <2>2. reader' \in [Readers -> Reader]
      BY <1>1, <2>1, ReaderSigns
    <2> QED
      BY <1>1, <1>8, <2>2 DEF SignSeed
  <1>9. ASSUME RenewToken(r) PROVE TypesOfReaders
    <2>1. [IdleReader EXCEPT !.pc = "gotToken", !.issued = reader[r].issued] \in Reader
      BY <1>2 DEF IdleReader, Reader, Processes
    <2>2. [at |-> reader[r].issued, expires |-> now + TokenTTL] \in [at: Nat, expires: Nat]
      BY <1>1, <1>2, Bounds
    <2>3. /\ token' = [token EXCEPT ![reader[r].at] =
                                      [at |-> reader[r].issued, expires |-> now + TokenTTL]]
          /\ reader' = [reader EXCEPT ![r] =
                                        [IdleReader EXCEPT !.pc = "gotToken", !.issued = reader[r].issued]]
          /\ config' = config /\ signature' = signature
      BY <1>9 DEF RenewToken
    <2>4. token' \in [Processes -> [at: Nat, expires: Nat]]
      BY <1>1, <1>2, <2>2, <2>3
    <2>5. reader' \in [Readers -> Reader]
      BY <1>1, <2>1, <2>3
    <2> QED
      BY <1>1, <2>3, <2>4, <2>5
  <1>10. ASSUME RenewalFails(r) \/ Return(r) PROVE TypesOfReaders
    BY <1>1, <1>10, IdleTypes DEF RenewalFails, Return
  <1>11. TypesOfReaders
    <2> HIDE DEF TypesOfReaders
    <2> QED
      BY <1>3, <1>4, <1>5, <1>6, <1>7, <1>8, <1>9, <1>10
  <1>12. UNCHANGED <<now, log, ended, profiles, lock, admin, emit, stamped>>
    BY DEF ReadCached, ReadRow, ReadSignature, Store, GetToken, SignSeed, RenewToken,
       RenewalFails, Return
  <1> QED
    BY <1>11, <1>12 DEF Types, TypeOK

\* Types: emissions.
LEMMA EmitTypes ==
  ASSUME Types, NEW e \in Emitters,
         \/ Reserve(e) \/ FindCaf(e) \/ EnsureBrand(e) \/ FindFirst(e) \/ InsertFirst(e)
         \/ Commit(e) \/ Rollback(e)
  PROVE  Types'
  <1> USE DEF Types, TypeOK
  <1>1. /\ emit[e] \in Emit /\ emit[e].row \in Config /\ Current \in Nat
        /\ NextVersion \in Nat /\ Len(profiles) \in Nat
    BY Logged DEF Emit, NextVersion
  <1>2. /\ [config EXCEPT !["worker"] = Empty] \in [Processes -> [value: Nat, expires: Nat]]
        /\ [signature EXCEPT !["worker"] = NoSignature]
             \in [Processes -> [value: Admins \cup {Nobody}, expires: Nat]]
    BY IdleTypes DEF Processes
  <1>3. CASE Reserve(e)
    <2> DEFINE row == log[Current]
    <2>1. row \in Config
      BY Logged
    <2>2. [row EXCEPT !.used = @ + 1] \in Config /\ row.used + 1 \in Nat
      <3> HIDE DEF Types, TypeOK, row
      <3> QED
        BY <2>1 DEF Config
    <2>3. [IdleEmit EXCEPT !.pc = "caf", !.row = [row EXCEPT !.used = @ + 1],
                           !.folio = row.used + 1] \in Emit
      BY <2>2 DEF IdleEmit, Emit
    <2> QED
      BY <1>2, <1>3, <2>3 DEF Reserve
  <1>4. CASE FindCaf(e)
    <2>1. emit' \in [Emitters -> Emit]
      BY <1>1, <1>4 DEF FindCaf, Emit
    <2> QED
      BY <1>4, <2>1 DEF FindCaf
  <1>5. CASE EnsureBrand(e)
    <2>1. ASSUME NEW v \in Nat
          PROVE  /\ [emit[e] EXCEPT !.pc = "commit", !.version = v] \in Emit
                 /\ [emit[e] EXCEPT !.pc = "commit", !.version = v, !.row.brand = v] \in Emit
                 /\ [emit[e] EXCEPT !.pc = "create"] \in Emit
      <3>1. [emit[e].row EXCEPT !.brand = v] \in Config
        BY <1>1 DEF Config
      <3> QED
        BY <1>1, <3>1 DEF Emit
    <2>2. ActiveProfile(e) \in Nat
      BY <1>1 DEF ActiveProfile, Config
    <2>3. emit' \in [Emitters -> Emit]
      BY <1>1, <1>5, <2>1, <2>2 DEF EnsureBrand
    <2> QED
      BY <1>2, <1>5, <2>3 DEF EnsureBrand
  <1>6. CASE FindFirst(e)
    <2>1. emit' \in [Emitters -> Emit]
      BY <1>1, <1>6 DEF FindFirst, Emit
    <2> QED
      BY <1>6, <2>1 DEF FindFirst
  <1>7. CASE InsertFirst(e)
    <2> DEFINE v == emit[e].version
    <2>1. CASE v \in 1..Len(profiles)
      <3>1. emit' \in [Emitters -> Emit]
        <4>1. emit' = [emit EXCEPT ![e].pc = "failed"] /\ emit \in [Emitters -> Emit]
          BY <1>7, <2>1 DEF InsertFirst
        <4> HIDE DEF Types, TypeOK
        <4> QED
          BY <4>1 DEF Emit
      <3> QED
        BY <1>7, <2>1, <3>1 DEF InsertFirst
    <2>2. CASE v \notin 1..Len(profiles)
      <3>1. [emit[e].row EXCEPT !.brand = v] \in Config
        BY <1>1 DEF Config, Emit
      <3>2. emit' = [emit EXCEPT ![e].pc = "commit", ![e].new = TRUE, ![e].row.brand = v]
        BY <1>7, <2>2 DEF InsertFirst
      <3>3. emit' \in [Emitters -> Emit]
        BY <1>1, <3>1, <3>2 DEF Emit
      <3> QED
        BY <1>2, <1>7, <2>2, <3>3 DEF InsertFirst
    <2> QED
      BY <2>1, <2>2
  <1>8. CASE Commit(e)
    <2>1. log' \in Seq(Config) /\ ended' \in Seq(Nat) /\ Len(log') = Len(ended') + 1
      BY <1>1, <1>8, Written DEF Commit
    <2>2. profiles' \in Seq(Admins \cup Emitters)
      BY <1>8, AppendProperties DEF Commit
    <2>3. emit' \in [Emitters -> Emit]
      BY <1>1, <1>8 DEF Commit, Emit
    <2>4. [profile |-> emit[e].version, rev |-> Current + 1] \in [profile: Nat, rev: Nat]
      BY <1>1 DEF Emit
    <2>5. stamped' \in [Emitters -> [profile: Nat, rev: Nat]]
      BY <1>8, <2>4 DEF Commit
    <2> QED
      BY <1>8, <2>1, <2>2, <2>3, <2>5 DEF Commit
  <1>9. CASE Rollback(e)
    <2>1. emit' \in [Emitters -> Emit]
      BY <1>1, <1>9 DEF Rollback, Emit
    <2> QED
      BY <1>9, <2>1 DEF Rollback
  <1> QED
    BY <1>3, <1>4, <1>5, <1>6, <1>7, <1>8, <1>9
-----------------------------------------------------------------------------
(* The age of the copies *)

\* A copy of value i that is good until t: the value is current, or t is within
\* ttl of its replacement.
GoodUntil(i, t, ttl) == i = Current \/ t <= ended[i] + ttl

ConfigOK(p) ==
  LET c == config[p] IN
  /\ c.expires <= now + ConfigTTL
  /\ c.expires > 0 => c.value \in 1..Current /\ GoodUntil(c.value, c.expires, ConfigTTL)

SignatureOK(p) ==
  LET s == signature[p] IN
  /\ s.expires <= now + SignatureTTL
  /\ s.expires > 0 => \E i \in 1..Current :
       log[i].sig = s.value /\ GoodUntil(i, s.expires, ConfigTTL + SignatureTTL)

TokenOK(p) == token[p].expires <= token[p].at + SiiValidity

ReaderOK(r) ==
  /\ reader[r].pc = "store" =>
       reader[r].rev \in 1..Current /\ GoodUntil(reader[r].rev, now, 0)
  /\ reader[r].pc = "gotConfig" =>
       reader[r].rev \in 1..Current /\ RecentBy(reader[r].rev, ConfigTTL)
  /\ reader[r].pc = "gotSignature" => \E i \in 1..Current :
       log[i].sig = reader[r].sig /\ RecentBy(i, ConfigTTL + SignatureTTL)
  /\ reader[r].pc = "token" => now - reader[r].issued <= SiiValidity - TokenTTL
  /\ reader[r].pc = "gotToken" => now - reader[r].issued < SiiValidity

\* The inductive invariant of the clock and the caches.
TimeInv ==
  /\ \A i \in 1..(Current - 1) : ended[i] <= now
  /\ \A p \in Processes : ConfigOK(p) /\ SignatureOK(p) /\ TokenOK(p)
  /\ \A r \in Readers : ReaderOK(r)

\* Nothing is cached and nobody reads at the start.
LEMMA InitTime == Init => TimeInv
  <1> SUFFICES ASSUME Init PROVE TimeInv
    OBVIOUS
  <1>1. Current = 1 /\ now = 1
    BY DEF Init, Current
  <1>2. ASSUME NEW p \in Processes PROVE ConfigOK(p) /\ SignatureOK(p) /\ TokenOK(p)
    BY <1>1, <1>2, Bounds DEF Init, ConfigOK, SignatureOK, TokenOK, Empty, NoSignature, NoToken
  <1>3. ASSUME NEW r \in Readers PROVE ReaderOK(r)
    BY <1>3 DEF Init, ReaderOK, IdleReader
  <1> QED
    BY <1>1, <1>2, <1>3 DEF TimeInv

\* Readers pause the clock, and a seed pauses it once it gets old.
LEMMA TickTime ==
  ASSUME Types, TimeInv, Tick
  PROVE  TimeInv'
  <1>1. now \in Nat /\ now' = now + 1 /\ UNCHANGED <<log, ended, config, signature, token, reader>>
    BY DEF Tick, Types, TypeOK
  <1>2. ASSUME NEW i \in 1..(Current - 1)' PROVE ended[i] <= now'
    BY <1>1, <1>2, Logged DEF TimeInv, Current
  <1>3. ASSUME NEW p \in Processes PROVE ConfigOK(p)' /\ SignatureOK(p)' /\ TokenOK(p)'
    <2>1. /\ config[p].expires \in Nat /\ signature[p].expires \in Nat
          /\ ConfigOK(p) /\ SignatureOK(p) /\ TokenOK(p)
      BY <1>3 DEF Types, TimeInv
    <2>2. ConfigOK(p)'
      BY <1>1, <2>1, Bounds DEF ConfigOK, GoodUntil, Current
    <2>3. SignatureOK(p)'
      BY <1>1, <2>1, Bounds DEF SignatureOK, GoodUntil, Current
    <2> QED
      BY <1>1, <2>1, <2>2, <2>3 DEF TokenOK
  <1>4. ASSUME NEW r \in Readers PROVE ReaderOK(r)'
    <2>1. \/ reader[r].pc = "idle"
          \/ reader[r].pc = "token" /\ now - reader[r].issued < SiiValidity - TokenTTL
      BY <1>4 DEF Tick
    <2>2. reader[r].issued \in Nat
      BY <1>4 DEF Types, TypeOK, Reader
    <2> QED
      BY <1>1, <2>1, <2>2, Bounds DEF ReaderOK
  <1> QED
    BY <1>1, <1>2, <1>3, <1>4 DEF TimeInv

\* A commit: from now on the copies of the old value age.
LEMMA WriteTime ==
  ASSUME Types, TimeInv, NEW row \in Config, Write(row),
         UNCHANGED <<now, config, signature, token, reader>>
  PROVE  TimeInv'
  <1>1. /\ Current' = Current + 1 /\ Current \in Nat /\ Current >= 1 /\ now \in Nat
        /\ \A i \in 1..Current : log'[i] = log[i]
        /\ \A i \in 1..(Current - 1) : ended'[i] = ended[i] /\ ended[i] \in Nat /\ ended[i] <= now
        /\ ended'[Current] = now
    <2>1. now \in Nat
      BY DEF Types, TypeOK
    <2>2. \A i \in 1..(Current - 1) : ended[i] <= now
      BY DEF TimeInv
    <2> QED
      BY <2>1, <2>2, Written, Logged
  <1>2. ASSUME NEW i \in 1..Current, NEW t \in Nat, NEW ttl \in Nat,
               GoodUntil(i, t, ttl), t <= now + ttl
        PROVE  i \in 1..Current' /\ GoodUntil(i, t, ttl)'
    BY <1>1, <1>2 DEF GoodUntil
  <1>3. ASSUME NEW i \in 1..Current, NEW age \in Nat \ {0}, RecentBy(i, age)
        PROVE  i \in 1..Current' /\ RecentBy(i, age)'
    BY <1>1, <1>3 DEF RecentBy
  <1>4. ASSUME NEW p \in Processes PROVE ConfigOK(p)' /\ SignatureOK(p)' /\ TokenOK(p)'
    <2>1. /\ config[p].expires \in Nat /\ signature[p].expires \in Nat
          /\ ConfigOK(p) /\ SignatureOK(p) /\ TokenOK(p)
      BY <1>4 DEF Types, TimeInv
    <2>2. ConfigOK(p)'
      BY <1>2, <2>1, Bounds DEF ConfigOK
    <2>3. SignatureOK(p)'
      <3> SUFFICES ASSUME signature[p].expires > 0
                   PROVE  \E i \in 1..Current' : /\ log'[i].sig = signature[p].value
                            /\ GoodUntil(i, signature[p].expires, ConfigTTL + SignatureTTL)'
        BY <2>1 DEF SignatureOK
      <3>1. PICK i \in 1..Current : /\ log[i].sig = signature[p].value
              /\ GoodUntil(i, signature[p].expires, ConfigTTL + SignatureTTL)
        BY <2>1 DEF SignatureOK
      <3>2. signature[p].expires <= now + (ConfigTTL + SignatureTTL) /\ ConfigTTL + SignatureTTL \in Nat
        BY <1>1, <2>1, Bounds DEF SignatureOK
      <3>3. i \in 1..Current' /\ GoodUntil(i, signature[p].expires, ConfigTTL + SignatureTTL)'
        BY <1>2, <2>1, <3>1, <3>2
      <3> QED
        BY <1>1, <3>1, <3>3
    <2> QED
      BY <2>1, <2>2, <2>3 DEF TokenOK
  <1>5. ASSUME NEW r \in Readers PROVE ReaderOK(r)'
    <2>1. ReaderOK(r)
      BY <1>5 DEF TimeInv
    <2>2. reader[r].pc = "store" => reader[r].rev \in 1..Current' /\ GoodUntil(reader[r].rev, now, 0)'
      BY <1>1, <1>2, <2>1 DEF ReaderOK
    <2>3. reader[r].pc = "gotConfig" =>
            reader[r].rev \in 1..Current' /\ RecentBy(reader[r].rev, ConfigTTL)'
      BY <1>3, <2>1, Bounds DEF ReaderOK
    <2>4. ASSUME reader[r].pc = "gotSignature"
          PROVE  \E i \in 1..Current' : /\ log'[i].sig = reader[r].sig
                                        /\ RecentBy(i, ConfigTTL + SignatureTTL)'
      <3>1. PICK i \in 1..Current : /\ log[i].sig = reader[r].sig
                                    /\ RecentBy(i, ConfigTTL + SignatureTTL)
        BY <2>1, <2>4 DEF ReaderOK
      <3>2. ConfigTTL + SignatureTTL \in Nat \ {0}
        BY Bounds
      <3> QED
        BY <1>1, <1>3, <3>1, <3>2
    <2> QED
      BY <2>1, <2>2, <2>3, <2>4 DEF ReaderOK
  <1>6. ASSUME NEW i \in 1..(Current' - 1) PROVE ended'[i] <= now
    BY <1>1, <1>6
  <1> QED
    BY <1>4, <1>5, <1>6 DEF TimeInv

\* Entries are dropped, or not touched.
LEMMA DropTime ==
  ASSUME Types, TimeInv, UNCHANGED <<now, log, ended, token, reader>>,
         \A p \in Processes : config'[p] \in {config[p], Empty}
                              /\ signature'[p] \in {signature[p], NoSignature}
  PROVE  TimeInv'
  <1>1. Current' = Current /\ now \in Nat
    BY DEF Current, Types, TypeOK
  <1>2. ASSUME NEW p \in Processes PROVE ConfigOK(p)' /\ SignatureOK(p)' /\ TokenOK(p)'
    <2>1. ConfigOK(p) /\ SignatureOK(p) /\ TokenOK(p)
      BY <1>2 DEF TimeInv
    <2>2. ConfigOK(p)'
      <3>1. CASE config'[p] = config[p]
        BY <1>1, <2>1, <3>1 DEF ConfigOK, GoodUntil
      <3>2. CASE config'[p] = Empty
        BY <1>1, <3>2, Bounds DEF ConfigOK, Empty
      <3> QED
        BY <1>2, <3>1, <3>2
    <2>3. SignatureOK(p)'
      <3>1. CASE signature'[p] = signature[p]
        BY <1>1, <2>1, <3>1 DEF SignatureOK, GoodUntil
      <3>2. CASE signature'[p] = NoSignature
        BY <1>1, <3>2, Bounds DEF SignatureOK, NoSignature
      <3> QED
        BY <1>2, <3>1, <3>2
    <2> QED
      BY <2>1, <2>2, <2>3 DEF TokenOK
  <1>3. ASSUME NEW r \in Readers PROVE ReaderOK(r)'
    BY <1>1, <1>3 DEF TimeInv, ReaderOK, GoodUntil, RecentBy
  <1> QED
    BY <1>1, <1>2, <1>3 DEF TimeInv

\* One reader moves on.
LEMMA ReaderMoves ==
  ASSUME Types, TimeInv, NEW r \in Readers, UNCHANGED <<now, log, ended>>, NEW new,
         reader' = [reader EXCEPT ![r] = new], ReaderOK(r)',
         \A p \in Processes : ConfigOK(p)' /\ SignatureOK(p)' /\ TokenOK(p)'
  PROVE  TimeInv'
  <1>1. Current' = Current
    BY DEF Current
  <1>2. ASSUME NEW q \in Readers, q # r PROVE ReaderOK(q)'
    <2>1. ReaderOK(q) /\ reader'[q] = reader[q]
      BY <1>2 DEF TimeInv, Types, TypeOK
    <2> QED
      BY <1>1, <2>1 DEF ReaderOK, GoodUntil, RecentBy
  <1> QED
    BY <1>1, <1>2 DEF TimeInv

\* Caches that are not touched.
LEMMA SameCaches ==
  ASSUME TimeInv, UNCHANGED <<now, log, ended>>, NEW p \in Processes
  PROVE  /\ config'[p] = config[p] => ConfigOK(p)'
         /\ signature'[p] = signature[p] => SignatureOK(p)'
         /\ token'[p] = token[p] => TokenOK(p)'
  BY DEF TimeInv, ConfigOK, SignatureOK, TokenOK, GoodUntil, Current

\* The answer with value rev of the row, current or replaced within the TTL: it
\* may start a signature entry.
LEMMA GotTime ==
  ASSUME Types, TimeInv, NEW r \in Readers, NEW p \in Processes,
         NEW wants \in {"config", "signature"}, NEW rev \in 1..Current,
         RecentBy(rev, ConfigTTL), Got(r, p, wants, rev), UNCHANGED <<now, log, ended, token>>,
         \A q \in Processes : ConfigOK(q)'
  PROVE  TimeInv'
  <1>1. Current' = Current /\ Current \in Nat /\ now \in Nat
    BY Logged DEF Current, Types, TypeOK
  <1>2. rev = Current \/ (ended[rev] \in Nat /\ now < ended[rev] + ConfigTTL)
    <2>1. rev # Current => ended[rev] \in Nat
      BY <1>1, Logged
    <2> QED
      BY <1>1, <2>1, Bounds DEF RecentBy
  <1>3. CASE wants = "config"
    <2> DEFINE new == [IdleReader EXCEPT !.pc = "gotConfig", !.rev = rev]
    <2>1. reader' = [reader EXCEPT ![r] = new] /\ signature' = signature
      BY <1>3 DEF Got
    <2>2. new.pc = "gotConfig" /\ new.rev = rev
      BY DEF IdleReader
    <2>3. reader'[r] = new
      BY <2>1 DEF Types, TypeOK
    <2> HIDE DEF new
    <2>4. ReaderOK(r)'
      BY <1>1, <2>2, <2>3 DEF ReaderOK, RecentBy
    <2> QED
      BY <2>1, <2>4, ReaderMoves, SameCaches
  <1>4. CASE wants = "signature"
    <2> DEFINE sig == log[rev].sig
               new == [IdleReader EXCEPT !.pc = "gotSignature", !.at = p, !.sig = sig]
    <2>1. /\ reader' = [reader EXCEPT ![r] = new]
          /\ signature' = IF sig = Nobody THEN signature
                          ELSE [signature EXCEPT ![p] = [value |-> sig, expires |-> SignatureExpiry]]
      BY <1>4 DEF Got
    <2>2. new.pc = "gotSignature" /\ new.sig = sig
      BY DEF IdleReader
    <2>3. reader'[r] = new
      BY <2>1 DEF Types, TypeOK
    <2>4. RecentBy(rev, ConfigTTL + SignatureTTL)'
      BY <1>1, <1>2, Bounds DEF RecentBy
    <2> HIDE DEF new
    <2>5. ReaderOK(r)'
      BY <1>1, <2>2, <2>3, <2>4 DEF ReaderOK
    <2>6. ASSUME NEW q \in Processes PROVE SignatureOK(q)'
      <3>1. CASE signature'[q] = signature[q]
        BY <3>1, SameCaches
      <3>2. CASE signature'[q] # signature[q]
        <4>1. signature'[q].value = sig /\ signature'[q].expires = now + SignatureTTL
          BY <2>1, <2>6, <3>2 DEF SignatureExpiry, Types
        <4>2. GoodUntil(rev, now + SignatureTTL, ConfigTTL + SignatureTTL)'
          BY <1>1, <1>2, Bounds DEF GoodUntil
        <4>3. signature'[q].expires <= now' + SignatureTTL
          BY <1>1, <4>1, Bounds
        <4>4. /\ rev \in 1..Current' /\ log'[rev].sig = signature'[q].value
              /\ GoodUntil(rev, signature[q].expires, ConfigTTL + SignatureTTL)'
          BY <1>1, <4>1, <4>2 DEF GoodUntil
        <4> QED
          BY <4>3, <4>4 DEF SignatureOK
      <3> QED
        BY <3>1, <3>2
    <2> QED
      BY <2>1, <2>5, <2>6, ReaderMoves, SameCaches
  <1> QED
    BY <1>3, <1>4

\* Every step of a reader.
LEMMA ReaderTime ==
  ASSUME Types, TimeInv, NEW r \in Readers,
         \/ \E p \in Processes, wants \in {"config", "signature"} :
              ReadCached(r, p, wants) \/ ReadRow(r, p, wants)
         \/ \E p \in Processes : ReadSignature(r, p)
         \/ Store(r) \/ GetToken(r) \/ SignSeed(r) \/ RenewToken(r) \/ RenewalFails(r) \/ Return(r)
  PROVE  TimeInv'
  <1>1. UNCHANGED <<now, log, ended>> /\ Current' = Current /\ Current \in Nat /\ now \in Nat
        /\ Current >= 1
    <2>1. UNCHANGED <<now, log, ended>>
      BY DEF ReadCached, ReadRow, ReadSignature, Store, GetToken, SignSeed, RenewToken,
         RenewalFails, Return
    <2>2. Current' = Current
      BY <2>1 DEF Current
    <2>3. now \in Nat
      BY DEF Types, TypeOK
    <2> QED
      BY <2>1, <2>2, <2>3, Logged
  <1>2. ReaderOK(r) /\ reader[r] \in Reader
    BY DEF TimeInv, Types, TypeOK
  <1>3. /\ reader[r].at \in Processes /\ reader[r].wants \in {"config", "signature"}
        /\ reader[r].rev \in Nat /\ reader[r].issued \in Nat
    BY <1>2 DEF Reader
  <1>4. ASSUME NEW p \in Processes, NEW wants \in {"config", "signature"}, ReadCached(r, p, wants)
        PROVE  TimeInv'
    <2>1. config[p].expires > now /\ config[p].expires \in Nat /\ ConfigOK(p)
      BY <1>4 DEF ReadCached, Live, Types, TimeInv
    <2>2. config[p].value \in 1..Current /\ GoodUntil(config[p].value, config[p].expires, ConfigTTL)
      BY <1>1, <2>1 DEF ConfigOK
    <2>3. RecentBy(config[p].value, ConfigTTL)
      <3>1. config[p].value # Current => ended[config[p].value] \in Nat
        BY <1>1, <2>2, Logged
      <3> QED
        BY <1>1, <2>1, <2>2, <3>1, Bounds DEF GoodUntil, RecentBy
    <2>4. \A q \in Processes : ConfigOK(q)'
      BY <1>1, <1>4, SameCaches DEF ReadCached
    <2>5. Got(r, p, wants, config[p].value) /\ token' = token
      BY <1>4 DEF ReadCached
    <2> QED
      BY <1>1, <2>2, <2>3, <2>4, <2>5, GotTime
  <1>5. ASSUME NEW p \in Processes, NEW wants \in {"config", "signature"}, ReadRow(r, p, wants)
        PROVE  TimeInv'
    <2> DEFINE new == [IdleReader EXCEPT !.pc = "store", !.at = p, !.wants = wants, !.rev = Current]
    <2>1. reader' = [reader EXCEPT ![r] = new] /\ UNCHANGED <<config, signature, token>>
      BY <1>5 DEF ReadRow
    <2>2. new.pc = "store" /\ new.rev = Current
      BY DEF IdleReader
    <2>3. reader'[r] = new
      BY <2>1 DEF Types, TypeOK
    <2> HIDE DEF new
    <2>4. ReaderOK(r)'
      BY <1>1, <2>2, <2>3 DEF ReaderOK, GoodUntil
    <2> QED
      BY <1>1, <2>1, <2>4, ReaderMoves, SameCaches
  <1>6. ASSUME NEW p \in Processes, ReadSignature(r, p) PROVE TimeInv'
    <2> DEFINE new == [IdleReader EXCEPT !.pc = "gotSignature", !.at = p, !.sig = signature[p].value]
    <2>1. reader' = [reader EXCEPT ![r] = new] /\ UNCHANGED <<config, signature, token>>
      BY <1>6 DEF ReadSignature
    <2>2. new.pc = "gotSignature" /\ new.sig = signature[p].value
      BY DEF IdleReader
    <2>3. reader'[r] = new
      BY <2>1 DEF Types, TypeOK
    <2> HIDE DEF new
    <2>4. signature[p].expires > now /\ signature[p].expires \in Nat /\ SignatureOK(p)
      BY <1>6 DEF ReadSignature, Live, Types, TimeInv
    <2>5. PICK i \in 1..Current : /\ log[i].sig = signature[p].value
            /\ GoodUntil(i, signature[p].expires, ConfigTTL + SignatureTTL)
      BY <1>1, <2>4 DEF SignatureOK
    <2>6. RecentBy(i, ConfigTTL + SignatureTTL)
      <3>1. i # Current => ended[i] \in Nat
        BY <1>1, Logged
      <3> QED
        BY <1>1, <2>4, <2>5, <3>1, Bounds DEF GoodUntil, RecentBy
    <2>7. ReaderOK(r)'
      BY <1>1, <2>2, <2>3, <2>5, <2>6 DEF ReaderOK, RecentBy
    <2> QED
      BY <1>1, <2>1, <2>7, ReaderMoves, SameCaches
  <1>7. CASE Store(r)
    <2> DEFINE p == reader[r].at  rev == reader[r].rev
    <2>1. /\ reader[r].pc = "store"
          /\ config' = [config EXCEPT ![p] = [value |-> rev, expires |-> Expiry]]
          /\ Got(r, p, reader[r].wants, rev) /\ token' = token
      BY <1>7 DEF Store
    <2>2. rev \in 1..Current /\ GoodUntil(rev, now, 0)
      BY <1>2, <2>1 DEF ReaderOK
    <2>3. rev = Current \/ (ended[rev] \in Nat /\ now <= ended[rev])
      <3>1. rev # Current => ended[rev] \in Nat
        BY <1>1, <2>2, Logged
      <3> QED
        BY <1>1, <2>2, <3>1 DEF GoodUntil
    <2>4. RecentBy(rev, ConfigTTL)
      BY <1>1, <2>3, Bounds DEF RecentBy
    <2>5. ASSUME NEW q \in Processes PROVE ConfigOK(q)'
      <3>1. CASE q = p
        <4>1. config'[q].value = rev /\ config'[q].expires = now + ConfigTTL
          BY <2>1, <2>5, <3>1 DEF Expiry, Types
        <4> QED
          BY <1>1, <2>2, <2>3, <4>1, Bounds DEF ConfigOK, GoodUntil
      <3>2. CASE q # p
        <4>1. config'[q] = config[q]
          BY <2>1, <2>5, <3>2 DEF Types
        <4> QED
          BY <1>1, <4>1, SameCaches
      <3> QED
        BY <3>1, <3>2
    <2> QED
      BY <1>1, <1>3, <2>1, <2>2, <2>4, <2>5, GotTime
  <1>8. CASE GetToken(r)
    <2> DEFINE p == reader[r].at  new == [IdleReader EXCEPT !.pc = "gotToken", !.issued = token[p].at]
    <2>1. reader' = [reader EXCEPT ![r] = new] /\ UNCHANGED <<config, signature, token>>
      BY <1>8 DEF GetToken
    <2>2. new.pc = "gotToken" /\ new.issued = token[p].at
      BY DEF IdleReader
    <2>3. reader'[r] = new
      BY <2>1 DEF Types, TypeOK
    <2> HIDE DEF new
    <2>4. /\ token[p].expires > now /\ token[p].expires \in Nat /\ token[p].at \in Nat
          /\ token[p].expires <= token[p].at + SiiValidity
      BY <1>3, <1>8 DEF GetToken, Live, Types, TimeInv, TokenOK
    <2>5. ReaderOK(r)'
      BY <1>1, <2>2, <2>3, <2>4, Bounds DEF ReaderOK
    <2> QED
      BY <1>1, <2>1, <2>5, ReaderMoves, SameCaches
  <1>9. CASE SignSeed(r)
    <2> DEFINE new == [reader[r] EXCEPT !.pc = "token", !.issued = now]
    <2>1. reader' = [reader EXCEPT ![r] = new] /\ UNCHANGED <<config, signature, token>>
      BY <1>9 DEF SignSeed
    <2>2. new.pc = "token" /\ new.issued = now
      BY <1>2 DEF Reader
    <2>3. reader'[r] = new
      BY <2>1 DEF Types, TypeOK
    <2> HIDE DEF new
    <2>4. ReaderOK(r)'
      BY <1>1, <2>2, <2>3, Bounds DEF ReaderOK
    <2> QED
      BY <1>1, <2>1, <2>4, ReaderMoves, SameCaches
  <1>10. CASE RenewToken(r)
    <2> DEFINE p == reader[r].at  issued == reader[r].issued
               new == [IdleReader EXCEPT !.pc = "gotToken", !.issued = issued]
    <2>1. /\ reader' = [reader EXCEPT ![r] = new] /\ UNCHANGED <<config, signature>>
          /\ token' = [token EXCEPT ![p] = [at |-> issued, expires |-> now + TokenTTL]]
          /\ reader[r].pc = "token"
      BY <1>10 DEF RenewToken
    <2>2. new.pc = "gotToken" /\ new.issued = issued
      BY DEF IdleReader
    <2>3. reader'[r] = new
      BY <2>1 DEF Types, TypeOK
    <2> HIDE DEF new
    <2>4. now - issued <= SiiValidity - TokenTTL
      BY <1>2, <2>1 DEF ReaderOK
    <2>5. ReaderOK(r)'
      BY <1>1, <1>3, <2>2, <2>3, <2>4, Bounds DEF ReaderOK
    <2>6. ASSUME NEW q \in Processes PROVE TokenOK(q)'
      <3>1. CASE q = p
        <4>1. token'[q].at = issued /\ token'[q].expires = now + TokenTTL
          BY <2>1, <2>6, <3>1 DEF Types
        <4> QED
          BY <1>1, <1>3, <2>4, <4>1, Bounds DEF TokenOK
      <3>2. CASE q # p
        <4>1. token'[q] = token[q]
          BY <2>1, <2>6, <3>2 DEF Types
        <4> QED
          BY <1>1, <4>1, SameCaches
      <3> QED
        BY <3>1, <3>2
    <2> QED
      BY <1>1, <2>1, <2>5, <2>6, ReaderMoves, SameCaches
  <1>11. CASE RenewalFails(r) \/ Return(r)
    <2>1. reader' = [reader EXCEPT ![r] = IdleReader] /\ UNCHANGED <<config, signature, token>>
      BY <1>11 DEF RenewalFails, Return
    <2>2. reader'[r] = IdleReader
      BY <2>1 DEF Types, TypeOK
    <2>3. ReaderOK(r)'
      BY <2>2 DEF ReaderOK, IdleReader
    <2> QED
      BY <1>1, <2>1, <2>3, ReaderMoves, SameCaches
  <1> QED
    BY <1>4, <1>5, <1>6, <1>7, <1>8, <1>9, <1>10, <1>11

\* The types and the ages are kept together: a reader indexes the log with the
\* number its copy holds.
LEMMA NextTime ==
  ASSUME Types, TimeInv, [Next]_vars
  PROVE  Types' /\ TimeInv'
  <1>1. CASE UNCHANGED vars
    <2>1. UNCHANGED <<now, log, ended, token, reader, config, signature>>
      BY <1>1 DEF vars
    <2>2. TimeInv'
      BY <2>1, DropTime
    <2> QED
      BY <1>1, <2>2 DEF vars, Types, TypeOK
  <1>2. CASE Tick
    BY <1>2, TickTime, AdminTypes
  <1>3. ASSUME NEW a \in Admins, NEW op \in Ops, StartAdmin(a, op) PROVE Types' /\ TimeInv'
    BY <1>3, DropTime, AdminTypes DEF StartAdmin
  <1>4. ASSUME NEW a \in Admins, FindVersion(a) \/ InsertVersion(a) \/ TakeLock(a)
        PROVE  Types' /\ TimeInv'
    <2>1. UNCHANGED <<now, log, ended, token, reader, config, signature>>
      BY <1>4 DEF FindVersion, InsertVersion, TakeLock
    <2>2. TimeInv'
      BY <2>1, DropTime
    <2> QED
      BY <1>4, <2>2, AdminTypes
  <1>5. ASSUME NEW a \in Admins, MutateConfig(a) PROVE Types' /\ TimeInv'
    <2>1. Mutated(a, Fresh(a)) \in Config
      <3>1. Fresh(a) \in Config
        BY Logged DEF Fresh
      <3> QED
        BY <3>1, MutatedTypes
    <2>2. Write(Mutated(a, Fresh(a))) /\ UNCHANGED <<now, config, signature, token, reader>>
      BY <1>5 DEF MutateConfig
    <2>3. TimeInv'
      BY <2>1, <2>2, WriteTime
    <2> QED
      BY <1>5, <2>3, AdminTypes
  <1>6. ASSUME NEW a \in Admins, InvalidateCache(a) PROVE Types' /\ TimeInv'
    <2>1. UNCHANGED <<now, log, ended, token, reader>>
      BY <1>6 DEF InvalidateCache
    <2>2. \A p \in Processes : config'[p] \in {config[p], Empty}
                               /\ signature'[p] \in {signature[p], NoSignature}
      BY <1>6 DEF InvalidateCache, Types
    <2>3. TimeInv'
      BY <2>1, <2>2, DropTime
    <2> QED
      BY <1>6, <2>3, AdminTypes
  <1>7. ASSUME NEW r \in Readers,
               \/ \E p \in Processes, wants \in {"config", "signature"} :
                    ReadCached(r, p, wants) \/ ReadRow(r, p, wants)
               \/ \E p \in Processes : ReadSignature(r, p)
               \/ Store(r) \/ GetToken(r) \/ SignSeed(r) \/ RenewToken(r) \/ RenewalFails(r)
               \/ Return(r)
        PROVE  Types' /\ TimeInv'
    <2>1. TimeInv'
      BY <1>7, ReaderTime
    <2>2. \A p \in Processes : Live(config[p]) => config[p].value \in 1..Current
      <3> SUFFICES ASSUME NEW p \in Processes, config[p].expires > now
                   PROVE  config[p].value \in 1..Current
        BY DEF Live
      <3>1. now \in Nat /\ config[p].expires \in Nat /\ ConfigOK(p)
        BY DEF Types, TypeOK, TimeInv
      <3> QED
        BY <3>1 DEF ConfigOK
    <2>3. reader[r].pc = "store" => reader[r].rev \in 1..Current
      BY DEF TimeInv, ReaderOK
    <2>4. Types'
      BY <1>7, <2>2, <2>3, ReaderTypes
    <2> QED
      BY <2>1, <2>4
  <1>8. ASSUME NEW e \in Emitters, Commit(e) PROVE Types' /\ TimeInv'
    <2>1. emit[e].row \in Config
      BY DEF Types, TypeOK, Emit
    <2>2. Write(emit[e].row) /\ UNCHANGED <<now, config, signature, token, reader>>
      BY <1>8 DEF Commit
    <2>3. TimeInv'
      BY <2>1, <2>2, WriteTime
    <2> QED
      BY <1>8, <2>3, EmitTypes
  <1>9. ASSUME NEW e \in Emitters,
               \/ Reserve(e) \/ FindCaf(e) \/ EnsureBrand(e) \/ FindFirst(e) \/ InsertFirst(e)
               \/ Rollback(e)
        PROVE  Types' /\ TimeInv'
    <2>1. UNCHANGED <<now, log, ended, token, reader>>
      BY <1>9 DEF Reserve, FindCaf, EnsureBrand, FindFirst, InsertFirst, Rollback
    <2>2. /\ config' \in {config, [config EXCEPT !["worker"] = Empty]}
          /\ signature' \in {signature, [signature EXCEPT !["worker"] = NoSignature]}
      BY <1>9 DEF Reserve, FindCaf, EnsureBrand, FindFirst, InsertFirst, Rollback
    <2>3. \A p \in Processes : config'[p] \in {config[p], Empty}
                               /\ signature'[p] \in {signature[p], NoSignature}
      BY <2>2 DEF Types
    <2>4. TimeInv'
      BY <2>1, <2>3, DropTime
    <2> QED
      BY <1>9, <2>4, EmitTypes
  <1> QED
    BY <1>1, <1>2, <1>3, <1>4, <1>5, <1>6, <1>7, <1>8, <1>9 DEF Next

LEMMA TimeAlways == Spec => [](Types /\ TimeInv)
  <1>1. Init => Types /\ TimeInv
    BY InitTypes, InitTime
  <1>2. Types /\ TimeInv /\ [Next]_vars => (Types /\ TimeInv)'
    BY NextTime
  <1> QED
    BY <1>1, <1>2, PTL DEF Spec

\* The row, the caches, the calls and the history keep their types, for any
\* number of calls and any TTLs: tenant-config.service.ts.
THEOREM TypeCorrect == Spec => []TypeOK
  <1>1. Types => TypeOK
    BY DEF Types
  <1> QED
    BY <1>1, TimeAlways, PTL

\* configCache, signatureCache and the token cache: whatever the order of
\* readings, fillings, commits and invalidations of two processes, an answer
\* is not older than its TTLs, and no token is handed out that the SII has let
\* expire.
THEOREM NoCopyOutlives == Spec => []CopiesExpire
  <1>1. TimeInv => CopiesExpire
    BY DEF TimeInv, ReaderOK, CopiesExpire, ConfigAge, SignatureAge, TokenLive
  <1> QED
    BY <1>1, TimeAlways, PTL
-----------------------------------------------------------------------------
(* The row under its lock *)

\* NothingLost for two values of the row.
Keeps(old, new) ==
  /\ {old.sig} \cup old.archived \subseteq {new.sig, Nobody} \cup new.archived
  /\ old.other \subseteq new.other
  /\ old.cafs <= new.cafs /\ old.used <= new.used
  /\ old.brand # 0 => new.brand # 0

Holding == {"caf", "brand", "create", "insert", "commit"}
Confirmed == {"invalidate", "done"}

\* An open emission m has changed the current row cur and lost nothing of it.
EmissionOK(m, cur) ==
  /\ m.pc # "noCaf"
  /\ m.pc \in Holding => Keeps(cur, m.row)
  /\ m.pc = "caf" => m.folio <= m.row.cafs
  /\ m.pc \in {"caf", "brand"} => m.row.brand = cur.brand
  /\ m.pc \in {"create", "insert"} => cur.brand = 0
  /\ m.pc = "insert" => m.version # 0
  /\ m.pc = "commit" => /\ m.row.brand = m.version /\ m.version # 0
                        /\ cur.brand # 0 => m.row.brand = cur.brand

\* Each attempt c of createNextVersion has met one version more, of n.
VersionOK(c, n) ==
  /\ c.pc = "find" => c.tries <= n
  /\ c.pc = "insert" => c.version \in 1..(n + 1) /\ c.tries <= c.version
  /\ c.pc = "failed" => n >= MaxTries

\* The profile that call c of a activates is its own.
ProfileOK(a, c, made) ==
  c.op = "brand" /\ c.pc \in {"lock", "commit"} \cup Confirmed =>
    c.version \in 1..Len(made) /\ made[c.version] = a

\* The lock's holder is the one that works on the row.
LockOK ==
  /\ \A a \in Admins : admin[a].pc = "commit" => lock = a
  /\ \A e \in Emitters : emit[e].pc \in Holding => lock = e

BrandOK ==
  (\E a \in Admins : admin[a].op = "brand" /\ admin[a].pc \in Confirmed) =>
    /\ log[Current].brand \in 1..Len(profiles)
    /\ profiles[log[Current].brand] \in Admins

StampOK(e) ==
  LET s == stamped[e] IN
  s.rev # 0 => s.rev \in 1..Current /\ log[s.rev].brand = s.profile

\* The inductive invariant of the row and its lock.
LockInv ==
  /\ LockOK /\ BrandOK
  /\ \A i \in 1..Current : Keeps(log[i], log[Current])
  /\ \A e \in Emitters : EmissionOK(emit[e], log[Current]) /\ StampOK(e)
  /\ \A a \in Admins : VersionOK(admin[a], Len(profiles)) /\ ProfileOK(a, admin[a], profiles)

\* Keeping is reflexive and transitive.
LEMMA KeepsSelf ==
  ASSUME NEW row \in Config
  PROVE  Keeps(row, row)
  BY DEF Keeps, Config

LEMMA KeepsOn ==
  ASSUME NEW x \in Config, NEW y \in Config, NEW z \in Config, Keeps(x, y), Keeps(y, z)
  PROVE  Keeps(x, z)
  <1>1. x.cafs <= z.cafs /\ x.used <= z.used /\ (x.brand # 0 => z.brand # 0)
    BY DEF Keeps, Config
  <1>2. x.other \subseteq z.other
    BY DEF Keeps
  <1>3. {x.sig} \cup x.archived \subseteq {z.sig, Nobody} \cup z.archived
    BY DEF Keeps
  <1> QED
    BY <1>1, <1>2, <1>3 DEF Keeps

\* Every administrator's operation keeps what the row holds.
LEMMA MutatedKeeps ==
  ASSUME Types, NEW a \in Admins, NEW row \in Config,
         admin[a].op = "brand" => admin[a].version # 0
  PROVE  /\ Keeps(row, Mutated(a, row))
         /\ Mutated(a, row).brand =
              IF admin[a].op = "brand" THEN admin[a].version ELSE row.brand
  <1>1. admin[a].op \in Ops
    BY DEF Types, TypeOK, Admin
  <1>2. CASE admin[a].op = "signature"
    <2>1. Mutated(a, row) = saveSignature(a, row)
      BY <1>2 DEF Mutated
    <2>2. /\ saveSignature(a, row).sig = a
          /\ saveSignature(a, row).archived = row.archived \cup ({row.sig} \ {Nobody})
          /\ saveSignature(a, row).other = row.other
          /\ saveSignature(a, row).cafs = row.cafs /\ saveSignature(a, row).used = row.used
          /\ saveSignature(a, row).brand = row.brand
      BY DEF saveSignature, Config
    <2>3. row.cafs <= row.cafs /\ row.used <= row.used
      BY DEF Config
    <2> QED
      BY <1>2, <2>1, <2>2, <2>3 DEF Keeps
  <1>3. CASE admin[a].op = "caf"
    <2>1. Mutated(a, row) = uploadCaf(row)
      BY <1>3 DEF Mutated
    <2> QED
      BY <1>3, <2>1 DEF uploadCaf, Keeps, Config
  <1>4. CASE admin[a].op = "other"
    <2>1. Mutated(a, row) = saveOther(a, row)
      BY <1>4 DEF Mutated
    <2> QED
      BY <1>4, <2>1 DEF saveOther, Keeps, Config
  <1>5. CASE admin[a].op = "brand"
    <2>1. Mutated(a, row) = setActiveBrandProfileId(a, row)
      BY <1>5 DEF Mutated
    <2> QED
      BY <1>5, <2>1 DEF setActiveBrandProfileId, Keeps, Config
  <1> QED
    BY <1>1, <1>2, <1>3, <1>4, <1>5 DEF Ops

LEMMA InitLock == Init => LockInv
  <1> SUFFICES ASSUME Init PROVE LockInv
    OBVIOUS
  <1>1. Types /\ Current = 1 /\ Len(profiles) = 0
    BY InitTypes DEF Init, Current
  <1>2. \A i \in 1..Current : Keeps(log[i], log[Current])
    BY <1>1, Logged, KeepsSelf
  <1>3. ASSUME NEW e \in Emitters PROVE EmissionOK(emit[e], log[Current]) /\ StampOK(e)
    BY <1>3 DEF Init, IdleEmit, EmissionOK, StampOK, Holding
  <1>4. ASSUME NEW a \in Admins
        PROVE  VersionOK(admin[a], Len(profiles)) /\ ProfileOK(a, admin[a], profiles)
    BY <1>1, <1>4 DEF Init, IdleAdmin, VersionOK, ProfileOK, Confirmed
  <1>5. LockOK /\ BrandOK
    BY DEF Init, IdleAdmin, IdleEmit, LockOK, BrandOK, Holding, Confirmed
  <1> QED
    BY <1>2, <1>3, <1>4, <1>5 DEF LockInv

\* The clock and the readers do not touch the row.
LEMMA QuietLock ==
  ASSUME LockInv, UNCHANGED <<log, profiles, lock, admin, emit, stamped>>
  PROVE  LockInv'
  BY DEF LockInv, LockOK, BrandOK, StampOK, Current

\* Versions are added at the end.
LEMMA MoreProfiles ==
  ASSUME Types, NEW a \in Admins, VersionOK(admin[a], Len(profiles)),
         ProfileOK(a, admin[a], profiles), NEW by \in Admins \cup Emitters,
         profiles' \in {profiles, Append(profiles, by)}
  PROVE  /\ VersionOK(admin[a], Len(profiles'))
         /\ ProfileOK(a, admin[a], profiles')
         /\ \A v \in 1..Len(profiles) : v \in 1..Len(profiles') /\ profiles'[v] = profiles[v]
  <1>1. profiles \in Seq(Admins \cup Emitters) /\ Len(profiles) \in Nat /\ admin[a] \in Admin
    BY DEF Types, TypeOK
  <1>2. /\ Len(profiles') \in Nat /\ Len(profiles) <= Len(profiles')
        /\ \A v \in 1..Len(profiles) : profiles'[v] = profiles[v]
    <2>1. CASE profiles' = profiles
      BY <1>1, <2>1
    <2>2. CASE profiles' = Append(profiles, by)
      BY <1>1, <2>2, AppendProperties
    <2> QED
      BY <2>1, <2>2
  <1>3. VersionOK(admin[a], Len(profiles'))
    BY <1>1, <1>2, Bounds DEF VersionOK, Admin
  <1>4. ProfileOK(a, admin[a], profiles')
    BY <1>1, <1>2 DEF ProfileOK
  <1> QED
    BY <1>1, <1>2, <1>3, <1>4

\* An administrator's call moves on, and leaves the row alone.
LEMMA AdminMoves ==
  ASSUME Types, LockInv, NEW a \in Admins, NEW new,
         UNCHANGED <<log, emit, stamped>>, admin' = [admin EXCEPT ![a] = new],
         profiles' \in {profiles, Append(profiles, a)}, lock # Nobody => lock' = lock,
         new.pc = "commit" => lock' = a,
         VersionOK(new, Len(profiles')), ProfileOK(a, new, profiles'),
         new.op = "brand" /\ new.pc \in Confirmed =>
           admin[a].op = "brand" /\ admin[a].pc \in Confirmed
  PROVE  LockInv'
  <1>1. Current' = Current /\ Nobody \notin Admins \cup Emitters
    BY SettingsAssumption DEF Current
  <1>2. /\ admin'[a] = new
        /\ \A b \in Admins : b # a => admin'[b] = admin[b]
    BY DEF Types, TypeOK
  <1>3. LockOK'
    BY <1>1, <1>2 DEF LockInv, LockOK
  <1>4. \A b \in Admins : VersionOK(admin'[b], Len(profiles')) /\ ProfileOK(b, admin'[b], profiles')
    <2> SUFFICES ASSUME NEW b \in Admins, b # a
                 PROVE  VersionOK(admin[b], Len(profiles')) /\ ProfileOK(b, admin[b], profiles')
      BY <1>2
    <2>1. VersionOK(admin[b], Len(profiles)) /\ ProfileOK(b, admin[b], profiles)
      BY DEF LockInv
    <2> QED
      BY <2>1, MoreProfiles
  <1>5. BrandOK'
    <2> SUFFICES ASSUME NEW b \in Admins, admin'[b].op = "brand", admin'[b].pc \in Confirmed
                 PROVE  /\ log[Current].brand \in 1..Len(profiles')
                        /\ profiles'[log[Current].brand] \in Admins
      BY <1>1 DEF BrandOK
    <2>1. admin[b].op = "brand" /\ admin[b].pc \in Confirmed
      BY <1>2
    <2>2. log[Current].brand \in 1..Len(profiles) /\ profiles[log[Current].brand] \in Admins
      BY <2>1 DEF LockInv, BrandOK
    <2>3. VersionOK(admin[b], Len(profiles)) /\ ProfileOK(b, admin[b], profiles)
      BY DEF LockInv
    <2> QED
      BY <2>2, <2>3, MoreProfiles
  <1>6. \A i \in 1..Current' : Keeps(log'[i], log'[Current'])
    BY <1>1 DEF LockInv
  <1>7. ASSUME NEW e \in Emitters PROVE EmissionOK(emit[e], log[Current])' /\ StampOK(e)'
    BY <1>1, <1>7 DEF LockInv, StampOK
  <1> QED
    BY <1>3, <1>4, <1>5, <1>6, <1>7 DEF LockInv

\* An emission moves on, and leaves the committed row alone.
LEMMA EmissionMoves ==
  ASSUME Types, LockInv, NEW e \in Emitters, NEW new,
         UNCHANGED <<log, profiles, admin, stamped>>, emit' = [emit EXCEPT ![e] = new],
         lock \notin {Nobody, e} => lock' = lock,
         new.pc \in Holding => lock' = e,
         EmissionOK(new, log[Current])
  PROVE  LockInv'
  <1>1. Current' = Current /\ Nobody \notin Admins \cup Emitters /\ e \notin Admins
    BY SettingsAssumption DEF Current
  <1>2. /\ emit'[e] = new
        /\ \A f \in Emitters : f # e => emit'[f] = emit[f]
    BY DEF Types, TypeOK
  <1>3. LockOK'
    BY <1>1, <1>2 DEF LockInv, LockOK
  <1>4. BrandOK'
    BY <1>1 DEF LockInv, BrandOK
  <1>5. \A i \in 1..Current' : Keeps(log'[i], log'[Current'])
    BY <1>1 DEF LockInv
  <1>6. ASSUME NEW f \in Emitters PROVE EmissionOK(emit[f], log[Current])' /\ StampOK(f)'
    BY <1>1, <1>2, <1>6 DEF LockInv, StampOK
  <1> QED
    BY <1>3, <1>4, <1>5, <1>6 DEF LockInv

\* A commit that keeps the current row keeps all of them.
LEMMA WriteGrows ==
  ASSUME Types, LockInv, NEW row \in Config, Write(row), Keeps(log[Current], row)
  PROVE  /\ \A i \in 1..Current' : Keeps(log'[i], log'[Current'])
         /\ log'[Current'] = row
         /\ \A e \in Emitters : stamped'[e] = stamped[e] => StampOK(e)'
  <1>1. /\ Current' = Current + 1 /\ log'[Current + 1] = row
        /\ \A i \in 1..Current : log'[i] = log[i]
    BY Written
  <1>2. Current \in Nat /\ Current >= 1 /\ \A i \in 1..Current : log[i] \in Config
    BY Logged
  <1>3. ASSUME NEW i \in 1..Current' PROVE Keeps(log'[i], row)
    <2>1. CASE i = Current + 1
      BY <1>1, <2>1, KeepsSelf
    <2>2. CASE i \in 1..Current
      <3>1. Keeps(log[i], log[Current]) /\ log[i] \in Config /\ log[Current] \in Config
        BY <1>2, <2>2 DEF LockInv
      <3> QED
        BY <1>1, <2>2, <3>1, KeepsOn
    <2> QED
      BY <1>1, <1>2, <2>1, <2>2
  <1>4. ASSUME NEW e \in Emitters, stamped'[e] = stamped[e] PROVE StampOK(e)'
    <2>1. StampOK(e)
      BY <1>4 DEF LockInv
    <2> QED
      BY <1>1, <1>2, <1>4, <2>1 DEF StampOK
  <1> QED
    BY <1>1, <1>3, <1>4

\* A call that does not hold the lock has no claim on the row.
LEMMA NotHolding ==
  ASSUME NEW m, NEW old, NEW new, EmissionOK(m, old), m.pc \notin Holding
  PROVE  EmissionOK(m, new)
  BY DEF EmissionOK, Holding

LEMMA MutateLock ==
  ASSUME Types, LockInv, NEW a \in Admins, MutateConfig(a)
  PROVE  LockInv'
  <1> DEFINE cur == log[Current]  row == Mutated(a, cur)
  <1>1. cur \in Config /\ admin[a] \in Admin /\ Current \in Nat /\ Current >= 1
    BY Logged DEF Types, TypeOK
  <1>2. /\ VersionOK(admin[a], Len(profiles)) /\ ProfileOK(a, admin[a], profiles)
        /\ admin[a].pc = "commit" /\ lock = a
    BY DEF LockInv, MutateConfig, LockOK
  <1>3. admin[a].op = "brand" => admin[a].version \in 1..Len(profiles) /\ profiles[admin[a].version] = a
    BY <1>2 DEF ProfileOK
  <1>4. row \in Config /\ Keeps(cur, row)
        /\ row.brand = IF admin[a].op = "brand" THEN admin[a].version ELSE cur.brand
    <2>1. admin[a].op = "brand" => admin[a].version # 0
      BY <1>3
    <2> HIDE DEF cur
    <2> QED
      BY <1>1, <2>1, MutatedTypes, MutatedKeeps
  <1>5. /\ Write(row) /\ lock' = Nobody /\ UNCHANGED <<profiles, emit, stamped>>
        /\ admin' = [admin EXCEPT ![a].pc = "invalidate"]
    BY DEF MutateConfig, Fresh
  <1> HIDE DEF row
  <1>6. /\ \A i \in 1..Current' : Keeps(log'[i], log'[Current'])
        /\ log'[Current'] = row
        /\ \A e \in Emitters : StampOK(e)'
    BY <1>4, <1>5, WriteGrows
  <1>7. /\ admin'[a].pc = "invalidate" /\ admin'[a].op = admin[a].op
        /\ admin'[a].version = admin[a].version
        /\ \A b \in Admins : b # a => admin'[b] = admin[b]
    BY <1>5 DEF Types, TypeOK, Admin
  <1>8. /\ \A b \in Admins : b # a => admin[b].pc # "commit"
        /\ \A e \in Emitters : emit[e].pc \notin Holding
    BY <1>2, SettingsAssumption DEF LockInv, LockOK
  <1>9. LockOK'
    BY <1>5, <1>7, <1>8 DEF LockOK
  <1>10. \A e \in Emitters : EmissionOK(emit'[e], log'[Current'])
    <2> SUFFICES ASSUME NEW e \in Emitters PROVE EmissionOK(emit[e], row)
      BY <1>5, <1>6
    <2>1. EmissionOK(emit[e], cur) /\ emit[e].pc \notin Holding
      BY <1>8 DEF LockInv
    <2> QED
      BY <2>1, NotHolding
  <1>11. ASSUME NEW b \in Admins
         PROVE  VersionOK(admin'[b], Len(profiles')) /\ ProfileOK(b, admin'[b], profiles')
    <2>1. CASE b = a
      BY <1>3, <1>5, <1>7, <2>1 DEF VersionOK, ProfileOK, Confirmed
    <2>2. CASE b # a
      BY <1>5, <1>7, <1>11, <2>2 DEF LockInv
    <2> QED
      BY <2>1, <2>2
  <1>12. BrandOK'
    <2> SUFFICES ASSUME NEW b \in Admins, admin'[b].op = "brand", admin'[b].pc \in Confirmed
                 PROVE  row.brand \in 1..Len(profiles) /\ profiles[row.brand] \in Admins
      BY <1>5, <1>6 DEF BrandOK
    <2>1. CASE admin[a].op = "brand"
      BY <1>3, <1>4, <2>1
    <2>2. CASE admin[a].op # "brand"
      <3>1. b # a /\ admin[b].op = "brand" /\ admin[b].pc \in Confirmed
        BY <1>7, <2>2
      <3>2. cur.brand \in 1..Len(profiles) /\ profiles[cur.brand] \in Admins
        BY <3>1 DEF LockInv, BrandOK
      <3> QED
        BY <1>4, <2>2, <3>2
    <2> QED
      BY <2>1, <2>2
  <1> QED
    BY <1>6, <1>9, <1>10, <1>11, <1>12 DEF LockInv

LEMMA CommitLock ==
  ASSUME Types, LockInv, NEW e \in Emitters, Commit(e)
  PROVE  LockInv'
  <1> DEFINE cur == log[Current]  row == emit[e].row
  <1>1. cur \in Config /\ emit[e] \in Emit /\ row \in Config /\ Current \in Nat /\ Current >= 1
    <2>1. emit[e] \in Emit
      BY DEF Types, TypeOK
    <2>2. row \in Config
      BY <2>1 DEF Emit
    <2> QED
      BY <2>1, <2>2, Logged
  <1>2. emit[e].pc = "commit" /\ lock = e /\ EmissionOK(emit[e], cur)
    BY DEF LockInv, Commit, LockOK, Holding
  <1>3. Keeps(cur, row) /\ row.brand = emit[e].version /\ (cur.brand # 0 => row.brand = cur.brand)
    BY <1>2 DEF EmissionOK, Holding
  <1>4. /\ Write(row) /\ lock' = Nobody /\ admin' = admin
        /\ profiles' \in {profiles, Append(profiles, e)}
        /\ stamped' = [stamped EXCEPT ![e] = [profile |-> emit[e].version, rev |-> Current + 1]]
        /\ emit' = [emit EXCEPT ![e].pc = "done"]
    BY DEF Commit
  <1> HIDE DEF row
  <1>5. /\ \A i \in 1..Current' : Keeps(log'[i], log'[Current'])
        /\ log'[Current'] = row
        /\ \A f \in Emitters : stamped'[f] = stamped[f] => StampOK(f)'
    BY <1>1, <1>3, <1>4, WriteGrows
  <1>6. Current' = Current + 1
    BY <1>1, <1>4, Written
  <1>7. /\ emit'[e].pc = "done"
        /\ \A f \in Emitters : f # e => emit'[f] = emit[f]
    BY <1>4 DEF Types, TypeOK, Emit
  <1>8. /\ \A b \in Admins : admin[b].pc # "commit"
        /\ \A f \in Emitters : f # e => emit[f].pc \notin Holding
    BY <1>2, SettingsAssumption DEF LockInv, LockOK
  <1>9. LockOK'
    BY <1>4, <1>7, <1>8 DEF LockOK, Holding
  <1>10. ASSUME NEW f \in Emitters PROVE EmissionOK(emit'[f], log'[Current'])
    <2>1. CASE f = e
      BY <1>7, <2>1 DEF EmissionOK, Holding
    <2>2. CASE f # e
      <3>1. EmissionOK(emit[f], cur) /\ emit[f].pc \notin Holding
        BY <1>8, <1>10, <2>2 DEF LockInv
      <3> QED
        BY <1>5, <1>7, <2>2, <3>1, NotHolding
    <2> QED
      BY <2>1, <2>2
  <1>11. ASSUME NEW f \in Emitters PROVE StampOK(f)'
    <2>1. CASE f = e
      <3>1. stamped'[f].rev = Current + 1 /\ stamped'[f].profile = row.brand
        BY <1>3, <1>4, <2>1 DEF Types
      <3> QED
        BY <1>1, <1>5, <1>6, <3>1 DEF StampOK
    <2>2. CASE f # e
      BY <1>4, <1>5, <1>11, <2>2 DEF Types
    <2> QED
      BY <2>1, <2>2
  <1>12. ASSUME NEW b \in Admins
         PROVE  /\ VersionOK(admin'[b], Len(profiles')) /\ ProfileOK(b, admin'[b], profiles')
                /\ \A v \in 1..Len(profiles) : v \in 1..Len(profiles') /\ profiles'[v] = profiles[v]
    <2>1. VersionOK(admin[b], Len(profiles)) /\ ProfileOK(b, admin[b], profiles)
      BY <1>12 DEF LockInv
    <2> QED
      BY <1>4, <2>1, MoreProfiles
  <1>13. BrandOK'
    <2> SUFFICES ASSUME NEW b \in Admins, admin[b].op = "brand", admin[b].pc \in Confirmed
                 PROVE  row.brand \in 1..Len(profiles') /\ profiles'[row.brand] \in Admins
      BY <1>4, <1>5 DEF BrandOK
    <2>1. cur.brand \in 1..Len(profiles) /\ profiles[cur.brand] \in Admins
      BY DEF LockInv, BrandOK
    <2>2. row.brand = cur.brand
      BY <1>3, <2>1
    <2> QED
      BY <1>12, <2>1, <2>2
  <1> QED
    BY <1>5, <1>9, <1>10, <1>11, <1>12, <1>13 DEF LockInv

\* The administrators' other steps.
LEMMA AdminLock ==
  ASSUME Types, LockInv, NEW a \in Admins,
         \/ \E op \in Ops : StartAdmin(a, op)
         \/ FindVersion(a) \/ InsertVersion(a) \/ TakeLock(a) \/ InvalidateCache(a)
  PROVE  LockInv'
  <1>1. /\ admin[a] \in Admin /\ Len(profiles) \in Nat
        /\ profiles \in Seq(Admins \cup Emitters) /\ admin \in [Admins -> Admin]
    BY DEF Types, TypeOK
  <1>2. VersionOK(admin[a], Len(profiles)) /\ ProfileOK(a, admin[a], profiles)
    BY DEF LockInv
  <1>3. ASSUME NEW op \in Ops, StartAdmin(a, op) PROVE LockInv'
    <2> DEFINE new == [IdleAdmin EXCEPT !.op = op, !.pc = IF op = "brand" THEN "find" ELSE "lock"]
    <2>1. admin' = [admin EXCEPT ![a] = new] /\ UNCHANGED <<log, emit, stamped, profiles, lock>>
      BY <1>3 DEF StartAdmin
    <2>2. /\ new.pc = (IF op = "brand" THEN "find" ELSE "lock") /\ new.op = op
          /\ new.tries = 0
      BY DEF IdleAdmin
    <2> HIDE DEF new
    <2>3. VersionOK(new, Len(profiles')) /\ ProfileOK(a, new, profiles')
      BY <1>1, <2>1, <2>2 DEF VersionOK, ProfileOK, Confirmed
    <2>4. new.pc # "commit" /\ ~(new.op = "brand" /\ new.pc \in Confirmed)
      BY <2>2 DEF Confirmed
    <2> QED
      BY <2>1, <2>3, <2>4, AdminMoves
  <1>4. CASE FindVersion(a)
    <2> DEFINE new == [admin[a] EXCEPT !.pc = "insert", !.version = NextVersion,
                                       !.tries = admin[a].tries + 1]
    <2>1. admin' = [admin EXCEPT ![a] = new] /\ UNCHANGED <<log, emit, stamped, profiles, lock>>
      BY <1>1, <1>4 DEF FindVersion
    <2>2. /\ new.pc = "insert" /\ new.version = Len(profiles) + 1
          /\ new.tries = admin[a].tries + 1 /\ admin[a].tries \in Nat
      BY <1>1 DEF Admin, NextVersion
    <2>3. admin[a].tries <= Len(profiles)
      BY <1>2, <1>4 DEF VersionOK, FindVersion
    <2> HIDE DEF new
    <2>4. VersionOK(new, Len(profiles')) /\ ProfileOK(a, new, profiles')
      BY <1>1, <2>1, <2>2, <2>3 DEF VersionOK, ProfileOK, Confirmed
    <2>5. new.pc # "commit" /\ new.pc \notin Confirmed
      BY <2>2 DEF Confirmed
    <2> QED
      BY <2>1, <2>4, <2>5, AdminMoves
  <1>5. CASE InsertVersion(a)
    <2> DEFINE v == admin[a].version
    <2>1. /\ admin[a].pc = "insert" /\ v \in 1..(Len(profiles) + 1) /\ admin[a].tries <= v
          /\ admin[a].tries \in Nat /\ UNCHANGED <<log, emit, stamped, lock>>
      BY <1>1, <1>2, <1>5 DEF InsertVersion, VersionOK, Admin
    <2>2. CASE v \in 1..Len(profiles)
      <3> DEFINE new == RetryOrFail(a)
      <3>1. admin' = [admin EXCEPT ![a] = new] /\ profiles' = profiles
        BY <1>5, <2>2 DEF InsertVersion
      <3>2. /\ new.pc = (IF admin[a].tries < MaxTries THEN "find" ELSE "failed")
            /\ new.tries = admin[a].tries
        BY <1>1 DEF RetryOrFail, Admin
      <3> HIDE DEF new
      <3>3. VersionOK(new, Len(profiles')) /\ ProfileOK(a, new, profiles')
        BY <1>1, <2>1, <2>2, <3>1, <3>2, Bounds DEF VersionOK, ProfileOK, Confirmed
      <3>4. new.pc # "commit" /\ new.pc \notin Confirmed
        BY <3>2 DEF Confirmed
      <3> QED
        BY <2>1, <3>1, <3>3, <3>4, AdminMoves
    <2>3. CASE v \notin 1..Len(profiles)
      <3> DEFINE new == [admin[a] EXCEPT !.pc = "lock"]
      <3>1. admin' = [admin EXCEPT ![a] = new] /\ profiles' = Append(profiles, a)
        BY <1>1, <1>5, <2>3 DEF InsertVersion
      <3>2. new.pc = "lock" /\ new.version = Len(profiles) + 1
        BY <1>1, <2>1, <2>3 DEF Admin
      <3> HIDE DEF new
      <3>3. Len(profiles') = Len(profiles) + 1 /\ profiles'[Len(profiles) + 1] = a
        BY <1>1, <3>1, AppendProperties
      <3>4. VersionOK(new, Len(profiles')) /\ ProfileOK(a, new, profiles')
        BY <1>1, <3>2, <3>3 DEF VersionOK, ProfileOK
      <3>5. new.pc # "commit" /\ new.pc \notin Confirmed
        BY <3>2 DEF Confirmed
      <3> QED
        BY <2>1, <3>1, <3>4, <3>5, AdminMoves
    <2> QED
      BY <2>2, <2>3
  <1>6. CASE TakeLock(a)
    <2> DEFINE new == [admin[a] EXCEPT !.pc = "commit"]
    <2>1. /\ admin' = [admin EXCEPT ![a] = new] /\ UNCHANGED <<log, emit, stamped, profiles>>
          /\ lock = Nobody /\ lock' = a /\ admin[a].pc = "lock"
      BY <1>1, <1>6 DEF TakeLock
    <2>2. new.pc = "commit" /\ new.op = admin[a].op /\ new.version = admin[a].version
      BY <1>1 DEF Admin
    <2> HIDE DEF new
    <2>3. VersionOK(new, Len(profiles')) /\ ProfileOK(a, new, profiles')
      BY <1>2, <2>1, <2>2 DEF VersionOK, ProfileOK
    <2>4. new.pc \notin Confirmed
      BY <2>2 DEF Confirmed
    <2> QED
      BY <2>1, <2>3, <2>4, AdminMoves
  <1>7. CASE InvalidateCache(a)
    <2> DEFINE new == [admin[a] EXCEPT !.pc = "done"]
    <2>1. /\ admin' = [admin EXCEPT ![a] = new] /\ UNCHANGED <<log, emit, stamped, profiles, lock>>
          /\ admin[a].pc = "invalidate"
      BY <1>1, <1>7 DEF InvalidateCache
    <2>2. new.pc = "done" /\ new.op = admin[a].op /\ new.version = admin[a].version
      BY <1>1 DEF Admin
    <2> HIDE DEF new
    <2>3. VersionOK(new, Len(profiles')) /\ ProfileOK(a, new, profiles')
      BY <1>2, <2>1, <2>2 DEF VersionOK, ProfileOK, Confirmed
    <2>4. new.pc # "commit" /\ admin[a].pc \in Confirmed
      BY <2>1, <2>2 DEF Confirmed
    <2> QED
      BY <2>1, <2>2, <2>3, <2>4, AdminMoves
  <1> QED
    BY <1>3, <1>4, <1>5, <1>6, <1>7

\* The emissions' other steps.
LEMMA EmissionLock ==
  ASSUME Types, LockInv, NEW e \in Emitters,
         \/ Reserve(e) \/ FindCaf(e) \/ EnsureBrand(e) \/ FindFirst(e) \/ InsertFirst(e)
         \/ Rollback(e)
  PROVE  LockInv'
  <1> DEFINE cur == log[Current]  m == emit[e]
  <1>1. /\ m \in Emit /\ m.row \in Config /\ cur \in Config /\ Len(profiles) \in Nat
        /\ emit \in [Emitters -> Emit] /\ EmissionOK(m, cur) /\ (m.pc \in Holding => lock = e)
    <2>1. emit \in [Emitters -> Emit] /\ m \in Emit /\ Len(profiles) \in Nat
      BY DEF Types, TypeOK
    <2>2. m.row \in Config /\ cur \in Config
      BY <2>1, Logged DEF Emit
    <2>3. EmissionOK(m, cur) /\ (m.pc \in Holding => lock = e)
      BY DEF LockInv, LockOK
    <2> QED
      BY <2>1, <2>2, <2>3
  <1>2. UNCHANGED <<log, profiles, admin, stamped>>
    BY DEF Reserve, FindCaf, EnsureBrand, FindFirst, InsertFirst, Rollback
  <1>3. /\ m.row.brand \in Nat /\ m.row.cafs \in Nat /\ m.folio \in Nat /\ m.version \in Nat
        /\ cur.brand \in Nat /\ cur.cafs \in Nat /\ cur.used \in Nat
    BY <1>1 DEF Config, Emit
  <1>4. CASE Reserve(e)
    <2> DEFINE row == [cur EXCEPT !.used = @ + 1]
               new == [IdleEmit EXCEPT !.pc = "caf", !.row = row, !.folio = cur.used + 1]
    <2>1. /\ emit' = [emit EXCEPT ![e] = new] /\ lock = Nobody /\ lock' = e /\ cur.used < cur.cafs
      BY <1>4 DEF Reserve
    <2> HIDE DEF cur
    <2>2. Keeps(cur, row) /\ row.cafs = cur.cafs /\ row.brand = cur.brand
      BY <1>1 DEF Keeps, Config
    <2>3. new.pc = "caf" /\ new.row = row /\ new.folio = cur.used + 1
      BY DEF IdleEmit
    <2> HIDE DEF row, new
    <2>4. EmissionOK(new, cur)
      BY <1>3, <2>1, <2>2, <2>3 DEF EmissionOK
    <2> USE DEF cur
    <2> QED
      BY <1>2, <2>1, <2>4, EmissionMoves
  <1>5. CASE FindCaf(e)
    <2> DEFINE new == [m EXCEPT !.pc = "brand"]
    <2>1. m.pc = "caf" /\ m.folio <= InTransaction(e).cafs
      BY <1>1, <1>5 DEF FindCaf, InTransaction, EmissionOK
    <2>2. emit' = [emit EXCEPT ![e] = new] /\ lock' = lock
      BY <1>1, <1>5, <2>1 DEF FindCaf
    <2>3. new.pc = "brand" /\ new.row = m.row
      BY <1>1 DEF Emit
    <2> HIDE DEF new
    <2>4. EmissionOK(new, cur) /\ lock = e
      BY <1>1, <2>1, <2>3 DEF EmissionOK, Holding
    <2> QED
      BY <1>2, <2>2, <2>4, EmissionMoves
  <1>6. CASE EnsureBrand(e)
    <2>1. m.pc = "brand" /\ lock' = lock /\ lock = e /\ Keeps(cur, m.row) /\ m.row.brand = cur.brand
      BY <1>1, <1>6 DEF EnsureBrand, EmissionOK, Holding
    <2>2. CASE m.row.brand # 0
      <3> DEFINE new == [m EXCEPT !.pc = "commit", !.version = m.row.brand]
      <3>1. emit' = [emit EXCEPT ![e] = new]
        BY <1>6, <2>2 DEF EnsureBrand, ActiveProfile
      <3>2. new.pc = "commit" /\ new.row = m.row /\ new.version = m.row.brand
        BY <1>1 DEF Emit
      <3> HIDE DEF new
      <3>3. EmissionOK(new, cur)
        BY <2>1, <2>2, <3>2 DEF EmissionOK
      <3> QED
        BY <1>2, <2>1, <3>1, <3>3, EmissionMoves
    <2>3. CASE m.row.brand = 0 /\ profiles # <<>>
      <3> DEFINE n == Len(profiles)  new == [m EXCEPT !.pc = "commit", !.version = n, !.row.brand = n]
      <3>1. emit' = [emit EXCEPT ![e] = new]
        BY <1>6, <2>3 DEF EnsureBrand, ActiveProfile
      <3>2. n # 0
        <4>1. profiles \in Seq(Admins \cup Emitters)
          BY DEF Types, TypeOK
        <4> QED
          BY <2>3, <4>1, EmptySeq
      <3>3. /\ new.pc = "commit" /\ new.row = [m.row EXCEPT !.brand = n] /\ new.version = n
        BY <1>1 DEF Emit
      <3> HIDE DEF n, new
      <3>4. Keeps(cur, new.row) /\ new.row.brand = n
        BY <1>1, <2>1, <3>2, <3>3 DEF Keeps, Config
      <3>5. EmissionOK(new, cur)
        BY <2>1, <2>3, <3>2, <3>3, <3>4 DEF EmissionOK
      <3> QED
        BY <1>2, <2>1, <3>1, <3>5, EmissionMoves
    <2>4. CASE m.row.brand = 0 /\ profiles = <<>>
      <3> DEFINE new == [m EXCEPT !.pc = "create"]
      <3>1. emit' = [emit EXCEPT ![e] = new]
        BY <1>6, <2>4 DEF EnsureBrand, ActiveProfile
      <3>2. new.pc = "create" /\ new.row = m.row
        BY <1>1 DEF Emit
      <3> HIDE DEF new
      <3>3. EmissionOK(new, cur)
        BY <2>1, <2>4, <3>2 DEF EmissionOK
      <3> QED
        BY <1>2, <2>1, <3>1, <3>3, EmissionMoves
    <2> QED
      BY <2>2, <2>3, <2>4
  <1>7. CASE FindFirst(e)
    <2> DEFINE new == [m EXCEPT !.pc = "insert", !.version = NextVersion]
    <2>1. /\ emit' = [emit EXCEPT ![e] = new] /\ lock' = lock /\ m.pc = "create"
      BY <1>1, <1>7 DEF FindFirst
    <2>2. /\ new.pc = "insert" /\ new.row = m.row /\ new.version # 0
      BY <1>1 DEF Emit, NextVersion
    <2> HIDE DEF new
    <2>3. EmissionOK(new, cur) /\ lock = e
      BY <1>1, <2>1, <2>2 DEF EmissionOK, Holding
    <2> QED
      BY <1>2, <2>1, <2>3, EmissionMoves
  <1>8. CASE InsertFirst(e) /\ m.version \notin 1..Len(profiles)
    <2> DEFINE v == m.version  new == [m EXCEPT !.pc = "commit", !.new = TRUE, !.row.brand = v]
    <2>1. /\ emit' = [emit EXCEPT ![e] = new] /\ lock' = lock /\ m.pc = "insert"
      BY <1>1, <1>8 DEF InsertFirst
    <2>2. Keeps(cur, m.row) /\ cur.brand = 0 /\ v # 0 /\ lock = e
      BY <1>1, <2>1 DEF EmissionOK, Holding
    <2>3. new.pc = "commit" /\ new.row = [m.row EXCEPT !.brand = v] /\ new.version = v
      BY <1>1 DEF Emit
    <2> HIDE DEF new
    <2>4. Keeps(cur, new.row) /\ new.row.brand = v
      BY <1>1, <2>2, <2>3 DEF Keeps, Config
    <2>5. EmissionOK(new, cur)
      BY <2>2, <2>3, <2>4 DEF EmissionOK
    <2> QED
      BY <1>2, <2>1, <2>2, <2>5, EmissionMoves
  <1>9. CASE Rollback(e) \/ (InsertFirst(e) /\ m.version \in 1..Len(profiles))
    <2> DEFINE new == [m EXCEPT !.pc = "failed"]
    <2>1. emit' = [emit EXCEPT ![e] = new] /\ lock' = Nobody /\ m.pc \in Holding
      BY <1>1, <1>9 DEF InsertFirst, Rollback, Holding
    <2>2. new.pc = "failed"
      BY <1>1 DEF Emit
    <2> HIDE DEF new
    <2>3. EmissionOK(new, cur) /\ lock = e /\ new.pc \notin Holding
      BY <1>1, <2>1, <2>2 DEF EmissionOK, Holding
    <2> QED
      BY <1>2, <2>1, <2>3, EmissionMoves
  <1> QED
    BY <1>4, <1>5, <1>6, <1>7, <1>8, <1>9

LEMMA NextLock ==
  ASSUME Types, LockInv, [Next]_vars
  PROVE  LockInv'
  <1>1. CASE UNCHANGED vars
    BY <1>1, QuietLock DEF vars
  <1>2. CASE Tick
    BY <1>2, QuietLock DEF Tick
  <1>3. ASSUME NEW a \in Admins,
               \/ \E op \in Ops : StartAdmin(a, op)
               \/ FindVersion(a) \/ InsertVersion(a) \/ TakeLock(a) \/ InvalidateCache(a)
        PROVE  LockInv'
    BY <1>3, AdminLock
  <1>4. ASSUME NEW a \in Admins, MutateConfig(a) PROVE LockInv'
    BY <1>4, MutateLock
  <1>5. ASSUME NEW r \in Readers,
               \/ \E p \in Processes, wants \in {"config", "signature"} :
                    ReadCached(r, p, wants) \/ ReadRow(r, p, wants)
               \/ \E p \in Processes : ReadSignature(r, p)
               \/ Store(r) \/ GetToken(r) \/ SignSeed(r) \/ RenewToken(r) \/ RenewalFails(r)
               \/ Return(r)
        PROVE  LockInv'
    <2>1. UNCHANGED <<log, profiles, lock, admin, emit, stamped>>
      BY <1>5 DEF ReadCached, ReadRow, ReadSignature, Store, GetToken, SignSeed, RenewToken,
         RenewalFails, Return
    <2> QED
      BY <2>1, QuietLock
  <1>6. ASSUME NEW e \in Emitters, Commit(e) PROVE LockInv'
    BY <1>6, CommitLock
  <1>7. ASSUME NEW e \in Emitters,
               \/ Reserve(e) \/ FindCaf(e) \/ EnsureBrand(e) \/ FindFirst(e) \/ InsertFirst(e)
               \/ Rollback(e)
        PROVE  LockInv'
    BY <1>7, EmissionLock
  <1> QED
    BY <1>1, <1>2, <1>3, <1>4, <1>5, <1>6, <1>7 DEF Next

LEMMA LockAlways == Spec => [](Types /\ LockInv)
  <1>1. Init => LockInv
    BY InitLock
  <1>2. Types /\ LockInv /\ [Next]_vars => LockInv'
    BY NextLock
  <1> QED
    BY <1>1, <1>2, TimeAlways, PTL DEF Spec

\* mutateConfig and reserveFolioAtomic: no saved signature, CAF, reserved folio
\* or setting is lost, however many calls and emissions overlap.
THEOREM NoMutationLost == Spec => []NothingLost
  <1>1. Types /\ LockInv => NothingLost
    <2> SUFFICES ASSUME Types, LockInv, NEW i \in 1..(Current - 1) PROVE Keeps(log[i], log[Current])
      BY DEF NothingLost, Keeps
    <2> QED
      BY Logged DEF LockInv
  <1> QED
    BY <1>1, LockAlways, PTL

\* getDecryptedCafForFolio finds the CAF of every folio that was reserved: the
\* transaction does not read the copy an earlier upload left behind.
THEOREM FolioHasCaf == Spec => []ReservedHasCaf
  <1>1. LockInv => ReservedHasCaf
    BY DEF LockInv, EmissionOK, ReservedHasCaf
  <1> QED
    BY <1>1, LockAlways, PTL

\* ensureActiveBrandProfileIdForEmission and setActiveBrandProfileId: a document
\* carries the profile that its own commit leaves active, and a confirmed
\* branding is never replaced by a neutral one.
THEOREM BrandAgreed == Spec => []BrandIsKept
  <1>1. LockInv => BrandIsKept
    <2> SUFFICES ASSUME LockInv PROVE BrandIsKept
      OBVIOUS
    <2>1. StampedIsActive
      BY DEF LockInv, StampOK, StampedIsActive
    <2>2. ConfirmedBrandStays
      BY DEF LockInv, BrandOK, Confirmed, ConfirmedBrandStays
    <2> QED
      BY <2>1, <2>2 DEF BrandIsKept
  <1> QED
    BY <1>1, LockAlways, PTL

\* createNextVersion: every failed attempt has met a version of its own, so a
\* call that gives up was overtaken MaxTries times.
THEOREM GivesUpOnlyWhenCrowded == Spec => []FailsOnlyWhenCrowded
  <1>1. LockInv => FailsOnlyWhenCrowded
    BY DEF LockInv, VersionOK, FailsOnlyWhenCrowded
  <1> QED
    BY <1>1, LockAlways, PTL
=============================================================================
