---------------------------- MODULE TenantSettings ----------------------------
(***************************************************************************)
(* The configuration of one tenant: the tenant_config row and its          *)
(* mutations, the copies each process caches of it (configuration,         *)
(* decrypted signature, SII token), the versioned invoice branding, and    *)
(* what an emission reads and writes of all this inside its transaction.   *)
(*                                                                         *)
(* Code: tenant-config.service.ts, invoice-branding.service.ts,            *)
(* sii-auth-token.service.ts, tenant-transaction.ts.                       *)
(*                                                                         *)
(* The web process serves administrators, the worker emits; both read.     *)
(* The row is kept as the log of its committed values, and a cached copy   *)
(* as the number of the value it holds.  A step of the clock is a fraction *)
(* of the shortest TTL and far longer than a query.                        *)
(***************************************************************************)
EXTENDS Naturals, Sequences

CONSTANTS
  Admins,    \* administrative calls, on the web process
  Readers,   \* calls that read the configuration
  Emitters,  \* requests being prepared by the worker
  Nobody,
  ConfigTTL, SignatureTTL, TokenTTL,  \* 5 min, 2 min, 110 min
  SiiValidity,   \* how long the SII honours a token (about 2 h)
  MaxTries,      \* attempts of createNextVersion (3)
  MaxTime        \* bound on the clock

ASSUME SettingsAssumption ==
  /\ Nobody \notin Admins \cup Emitters /\ Admins \cap Emitters = {}
  /\ {ConfigTTL, SignatureTTL, TokenTTL, SiiValidity, MaxTries, MaxTime} \subseteq Nat \ {0}
  /\ TokenTTL <= SiiValidity

VARIABLES
  now,
  log,       \* committed values of the tenant_config row, oldest first
  ended,     \* history: when each value but the last was replaced
  profiles,  \* invoice_brand_profiles: per version, the call that created it
  lock,      \* who holds the tenant's advisory lock
  config, signature, token,  \* per process: configCache, signatureCache, token cache
  admin, reader, emit,       \* per call, what it remembers
  stamped    \* history: per emission, the profile its document carries and when

vars == <<now, log, ended, profiles, lock, config, signature, token, admin, reader, emit, stamped>>
-----------------------------------------------------------------------------
(* Data *)

Processes == {"web", "worker"}

\* cafs counts authorised folios and used the reserved ones; a signature is the
\* call that saved it; brand is a version, 0 is none; other stands for the tax
\* profile, software provider, thresholds and opt-ins.
Config == [cafs: Nat, used: Nat, sig: Admins \cup {Nobody}, archived: SUBSET Admins,
           brand: Nat, other: SUBSET Admins]
NoConfig == [cafs |-> 0, used |-> 0, sig |-> Nobody, archived |-> {}, brand |-> 0, other |-> {}]

Current == Len(log)

\* A cached value; 0 in "value" of configCache and "at" of the others is no entry.
Empty == [value |-> 0, expires |-> 0]
NoSignature == [value |-> Nobody, expires |-> 0]
NoToken == [at |-> 0, expires |-> 0]

Ops == {"signature", "caf", "other", "brand"}
Admin == [pc: {"idle", "find", "insert", "lock", "commit", "invalidate", "done", "failed"},
          op: Ops, version: Nat, tries: Nat]
IdleAdmin == [pc |-> "idle", op |-> "other", version |-> 0, tries |-> 0]

Reader == [pc: {"idle", "store", "token", "gotConfig", "gotSignature", "gotToken"},
           at: Processes, wants: {"config", "signature"}, rev: Nat,
           sig: Admins \cup {Nobody}, issued: Nat]
IdleReader == [pc |-> "idle", at |-> "web", wants |-> "config", rev |-> 0,
               sig |-> Nobody, issued |-> 0]

\* row is the emission's uncommitted value of the row, new its profile.
Emit == [pc: {"idle", "caf", "brand", "create", "insert", "commit", "done", "noCaf", "failed"},
         row: Config, folio: Nat, version: Nat, new: BOOLEAN]
IdleEmit == [pc |-> "idle", row |-> NoConfig, folio |-> 0, version |-> 0, new |-> FALSE]

Init ==
  /\ now = 1
  /\ \E n \in 0..1 : log = <<[NoConfig EXCEPT !.cafs = n]>>
  /\ ended = <<>>
  /\ profiles = <<>>
  /\ lock = Nobody
  /\ config = [p \in Processes |-> Empty]
  /\ signature = [p \in Processes |-> NoSignature]
  /\ token = [p \in Processes |-> NoToken]
  /\ admin = [a \in Admins |-> IdleAdmin]
  /\ reader = [r \in Readers |-> IdleReader]
  /\ emit = [e \in Emitters |-> IdleEmit]
  /\ stamped = [e \in Emitters |-> [profile |-> 0, rev |-> 0]]

\* A transaction commits a new value of the row.
Write(row) == log' = Append(log, row) /\ ended' = Append(ended, now)
-----------------------------------------------------------------------------
(* The clock: a query takes less than one of its steps, and the SII's answer  *)
(* to a seed, with its three tries, less than what a token outlives its TTL.  *)

Tick ==
  /\ now < MaxTime
  /\ \A r \in Readers : \/ reader[r].pc = "idle"
                        \/ reader[r].pc = "token" /\ now - reader[r].issued < SiiValidity - TokenTTL
  /\ now' = now + 1
  /\ UNCHANGED <<log, ended, profiles, lock, config, signature, token, admin, reader, emit, stamped>>
-----------------------------------------------------------------------------
(* Administrators *)

StartAdmin(a, op) ==
  /\ admin[a].pc = "idle"
  /\ admin' = [admin EXCEPT ![a] = [IdleAdmin EXCEPT !.op = op,
                                      !.pc = IF op = "brand" THEN "find" ELSE "lock"]]
  /\ UNCHANGED <<now, log, ended, profiles, lock, config, signature, token, reader, emit, stamped>>

NextVersion == Len(profiles) + 1

\* createNextVersion reads the versions ...
FindVersion(a) ==
  /\ admin[a].pc = "find"
  /\ admin' = [admin EXCEPT ![a].pc = "insert", ![a].version = NextVersion,
                            ![a].tries = @ + 1]
  /\ UNCHANGED <<now, log, ended, profiles, lock, config, signature, token, reader, emit, stamped>>

\* Versions inserted by a transaction that is still open: an insert of the same
\* version waits for its end.
Pending == {emit[e].version : e \in {f \in Emitters : emit[f].new /\ emit[f].pc = "commit"}}

\* Mutant: the version is not computed again after a conflict.
RetryOrFailAtOnce(a) == [admin[a] EXCEPT !.pc = "failed"]

\* A version conflict starts again, up to the last attempt.
RetryOrFail(a) ==
  [admin[a] EXCEPT !.pc = IF admin[a].tries < MaxTries THEN "find" ELSE "failed"]

\* Mutant: the profile is activated without the tenant's lock.
InsertVersionUnlocked(a) ==
  LET v == admin[a].version IN
  /\ admin[a].pc = "insert" /\ v \notin Pending
  /\ IF v \in 1..Len(profiles)
       THEN admin' = [admin EXCEPT ![a] = RetryOrFail(a)] /\ UNCHANGED profiles
       ELSE /\ profiles' = Append(profiles, a)
            /\ admin' = [admin EXCEPT ![a].pc = "commit"]
  /\ UNCHANGED <<now, log, ended, lock, config, signature, token, reader, emit, stamped>>

\* ... and inserts the next one.
InsertVersion(a) ==
  LET v == admin[a].version IN
  /\ admin[a].pc = "insert" /\ v \notin Pending
  /\ IF v \in 1..Len(profiles)
       THEN admin' = [admin EXCEPT ![a] = RetryOrFail(a)] /\ UNCHANGED profiles
       ELSE /\ profiles' = Append(profiles, a)
            /\ admin' = [admin EXCEPT ![a].pc = "lock"]
  /\ UNCHANGED <<now, log, ended, lock, config, signature, token, reader, emit, stamped>>

\* mutateConfig takes the advisory lock ...
TakeLock(a) ==
  /\ admin[a].pc = "lock" /\ lock = Nobody
  /\ lock' = a
  /\ admin' = [admin EXCEPT ![a].pc = "commit"]
  /\ UNCHANGED <<now, log, ended, profiles, config, signature, token, reader, emit, stamped>>

\* What each operation does to the row it is given: the signature that is
\* replaced goes to the history, a new CAF file adds folios, the settings
\* replace their own part only.
saveSignature(a, row) ==
  [row EXCEPT !.sig = a, !.archived = @ \cup ({row.sig} \ {Nobody})]
uploadCaf(row) == [row EXCEPT !.cafs = @ + 1]
saveOther(a, row) == [row EXCEPT !.other = @ \cup {a}]
setActiveBrandProfileId(a, row) == [row EXCEPT !.brand = admin[a].version]

Mutated(a, row) ==
  CASE admin[a].op = "signature" -> saveSignature(a, row)
    [] admin[a].op = "caf" -> uploadCaf(row)
    [] admin[a].op = "other" -> saveOther(a, row)
    [] admin[a].op = "brand" -> setActiveBrandProfileId(a, row)

\* Mutant: the row is mutated from the process's cache.
FreshCached(a) == log[IF config["web"].value = 0 THEN Current ELSE config["web"].value]

\* The row as the lock's holder reads it.
Fresh(a) == log[Current]

\* ... reads the row afresh, changes it and commits ...
MutateConfig(a) ==
  /\ admin[a].pc = "commit"
  /\ Write(Mutated(a, Fresh(a)))
  /\ lock' = Nobody
  /\ admin' = [admin EXCEPT ![a].pc = "invalidate"]
  /\ UNCHANGED <<now, profiles, config, signature, token, reader, emit, stamped>>

\* ... and the process drops its copies.  The caller is answered.
InvalidateCache(a) ==
  /\ admin[a].pc = "invalidate"
  /\ config' = [config EXCEPT !["web"] = Empty]
  /\ signature' = [signature EXCEPT !["web"] = NoSignature]
  /\ admin' = [admin EXCEPT ![a].pc = "done"]
  /\ UNCHANGED <<now, log, ended, profiles, lock, token, reader, emit, stamped>>
-----------------------------------------------------------------------------
(* Readers outside a transaction *)

Live(entry) == entry.expires > now

SignatureExpiry == now + SignatureTTL

\* What a reader that got value rev of the configuration goes on with.
\* getDecryptedSignature decrypts and caches it; without one the answer is null.
Got(r, p, wants, rev) ==
  LET sig == log[rev].sig IN
  IF wants = "config"
    THEN /\ reader' = [reader EXCEPT ![r] = [IdleReader EXCEPT !.pc = "gotConfig", !.rev = rev]]
         /\ UNCHANGED signature
    ELSE /\ reader' = [reader EXCEPT ![r] = [IdleReader EXCEPT !.pc = "gotSignature",
                                               !.at = p, !.sig = sig]]
         /\ signature' = IF sig = Nobody THEN signature
                         ELSE [signature EXCEPT ![p] = [value |-> sig, expires |-> SignatureExpiry]]

\* getConfig, or getDecryptedSignature without a live entry: from the cache.
ReadCached(r, p, wants) ==
  /\ reader[r].pc = "idle"
  /\ wants = "signature" => ~Live(signature[p])
  /\ Live(config[p])
  /\ Got(r, p, wants, config[p].value)
  /\ UNCHANGED <<now, log, ended, profiles, lock, config, token, admin, emit, stamped>>

\* The same from the database ...
ReadRow(r, p, wants) ==
  /\ reader[r].pc = "idle"
  /\ wants = "signature" => ~Live(signature[p])
  /\ ~Live(config[p])
  /\ reader' = [reader EXCEPT ![r] = [IdleReader EXCEPT !.pc = "store", !.at = p,
                                        !.wants = wants, !.rev = Current]]
  /\ UNCHANGED <<now, log, ended, profiles, lock, config, signature, token, admin, emit, stamped>>

\* Mutant: the copy never expires.
ExpiryForever == MaxTime + 1

Expiry == now + ConfigTTL

\* ... and what was read then is cached now.
Store(r) ==
  LET p == reader[r].at IN
  /\ reader[r].pc = "store"
  /\ config' = [config EXCEPT ![p] = [value |-> reader[r].rev, expires |-> Expiry]]
  /\ Got(r, p, reader[r].wants, reader[r].rev)
  /\ UNCHANGED <<now, log, ended, profiles, lock, token, admin, emit, stamped>>

\* getDecryptedSignature from the signature cache.
ReadSignature(r, p) ==
  /\ reader[r].pc = "idle" /\ Live(signature[p])
  /\ reader' = [reader EXCEPT ![r] = [IdleReader EXCEPT !.pc = "gotSignature", !.at = p,
                                        !.sig = signature[p].value]]
  /\ UNCHANGED <<now, log, ended, profiles, lock, config, signature, token, admin, emit, stamped>>

\* getToken, keyed by tenant: a live one ...
GetToken(r) ==
  LET p == reader[r].at IN
  /\ reader[r].pc = "gotSignature" /\ reader[r].sig # Nobody /\ Live(token[p])
  /\ reader' = [reader EXCEPT ![r] = [IdleReader EXCEPT !.pc = "gotToken", !.issued = token[p].at]]
  /\ UNCHANGED <<now, log, ended, profiles, lock, config, signature, token, admin, emit, stamped>>

\* ... or, for a signed seed, a new one that the SII issues now ...
SignSeed(r) ==
  /\ reader[r].pc = "gotSignature" /\ reader[r].sig # Nobody /\ ~Live(token[reader[r].at])
  /\ reader' = [reader EXCEPT ![r].pc = "token", ![r].issued = now]
  /\ UNCHANGED <<now, log, ended, profiles, lock, config, signature, token, admin, emit, stamped>>

\* ... and whose TTL starts when its answer arrives.
RenewToken(r) ==
  /\ reader[r].pc = "token"
  /\ token' = [token EXCEPT ![reader[r].at] = [at |-> reader[r].issued, expires |-> now + TokenTTL]]
  /\ reader' = [reader EXCEPT ![r] = [IdleReader EXCEPT !.pc = "gotToken", !.issued = reader[r].issued]]
  /\ UNCHANGED <<now, log, ended, profiles, lock, config, signature, admin, emit, stamped>>

\* An answer without a seed or a token ends the call.
RenewalFails(r) ==
  /\ reader[r].pc = "token"
  /\ reader' = [reader EXCEPT ![r] = IdleReader]
  /\ UNCHANGED <<now, log, ended, profiles, lock, config, signature, token, admin, emit, stamped>>

Return(r) ==
  /\ reader[r].pc \in {"gotConfig", "gotSignature", "gotToken"}
  /\ reader' = [reader EXCEPT ![r] = IdleReader]
  /\ UNCHANGED <<now, log, ended, profiles, lock, config, signature, token, admin, emit, stamped>>
-----------------------------------------------------------------------------
(* An emission, in the worker's transaction *)

\* reserveFolioAtomic takes the lock and writes the row; the copy of the
\* configuration is dropped before the transaction commits.
Reserve(e) ==
  LET row == log[Current] IN
  /\ emit[e].pc = "idle" /\ lock = Nobody /\ row.used < row.cafs
  /\ lock' = e
  /\ config' = [config EXCEPT !["worker"] = Empty]
  /\ emit' = [emit EXCEPT ![e] = [IdleEmit EXCEPT !.pc = "caf",
                                    !.row = [row EXCEPT !.used = @ + 1], !.folio = row.used + 1]]
  /\ UNCHANGED <<now, log, ended, profiles, signature, token, admin, reader, stamped>>

\* Mutant: getConfig answers from the cache inside the transaction, too.
InTransactionCached(e) ==
  IF Live(config["worker"]) THEN log[config["worker"].value] ELSE emit[e].row

\* getConfig inside the transaction does not look at the cache.
InTransaction(e) == emit[e].row

\* getDecryptedCafForFolio: the CAF that covers the folio, or an error.  The
\* signature is read the same way.
FindCaf(e) ==
  LET found == emit[e].folio <= InTransaction(e).cafs IN
  /\ emit[e].pc = "caf"
  /\ emit' = [emit EXCEPT ![e].pc = IF found THEN "brand" ELSE "noCaf"]
  /\ lock' = IF found THEN lock ELSE Nobody
  /\ UNCHANGED <<now, log, ended, profiles, config, signature, token, admin, reader, stamped>>

\* getActiveBrandProfileIdForEmission.
ActiveProfile(e) == emit[e].row.brand

\* ensureActiveBrandProfileIdForEmission: the active profile, the newest one,
\* which becomes the active one and makes the worker drop its copies, or a
\* neutral one that is created.
EnsureBrand(e) ==
  LET adopts == ActiveProfile(e) = 0 /\ profiles # <<>> IN
  /\ emit[e].pc = "brand"
  /\ emit' = [emit EXCEPT ![e] =
       IF ActiveProfile(e) # 0 THEN [@ EXCEPT !.pc = "commit", !.version = ActiveProfile(e)]
       ELSE IF adopts
         THEN [@ EXCEPT !.pc = "commit", !.version = Len(profiles), !.row.brand = Len(profiles)]
         ELSE [@ EXCEPT !.pc = "create"]]
  /\ config' = IF adopts THEN [config EXCEPT !["worker"] = Empty] ELSE config
  /\ signature' = IF adopts THEN [signature EXCEPT !["worker"] = NoSignature] ELSE signature
  /\ UNCHANGED <<now, log, ended, profiles, lock, token, admin, reader, stamped>>

\* createNextVersion inside the transaction.
FindFirst(e) ==
  /\ emit[e].pc = "create"
  /\ emit' = [emit EXCEPT ![e].pc = "insert", ![e].version = NextVersion]
  /\ UNCHANGED <<now, log, ended, profiles, lock, config, signature, token, admin, reader, stamped>>

\* A conflict aborts the transaction, and with it the next attempt.  Otherwise
\* the new profile becomes the active one, and the worker drops its copies.
InsertFirst(e) ==
  LET v == emit[e].version IN
  /\ emit[e].pc = "insert"
  /\ IF v \in 1..Len(profiles)
       THEN /\ emit' = [emit EXCEPT ![e].pc = "failed"]
            /\ lock' = Nobody
            /\ UNCHANGED <<config, signature>>
       ELSE /\ emit' = [emit EXCEPT ![e].pc = "commit", ![e].new = TRUE, ![e].row.brand = v]
            /\ config' = [config EXCEPT !["worker"] = Empty]
            /\ signature' = [signature EXCEPT !["worker"] = NoSignature]
            /\ UNCHANGED lock
  /\ UNCHANGED <<now, log, ended, profiles, token, admin, reader, stamped>>

\* The transaction ends, with the document and the link to its request.
Commit(e) ==
  /\ emit[e].pc = "commit"
  /\ Write(emit[e].row)
  /\ profiles' = IF emit[e].new THEN Append(profiles, e) ELSE profiles
  /\ lock' = Nobody
  /\ stamped' = [stamped EXCEPT ![e] = [profile |-> emit[e].version, rev |-> Current + 1]]
  /\ emit' = [emit EXCEPT ![e].pc = "done"]
  /\ UNCHANGED <<now, config, signature, token, admin, reader>>

\* A failure or a crash rolls everything back; the request is processed again.
Rollback(e) ==
  /\ emit[e].pc \in {"caf", "brand", "create", "insert", "commit"}
  /\ emit' = [emit EXCEPT ![e].pc = "failed"]
  /\ lock' = Nobody
  /\ UNCHANGED <<now, log, ended, profiles, config, signature, token, admin, reader, stamped>>
-----------------------------------------------------------------------------
Next ==
  \/ Tick
  \/ \E a \in Admins :
       \/ \E op \in Ops : StartAdmin(a, op)
       \/ FindVersion(a) \/ InsertVersion(a) \/ TakeLock(a) \/ MutateConfig(a) \/ InvalidateCache(a)
  \/ \E r \in Readers :
       \/ \E p \in Processes, wants \in {"config", "signature"} :
            ReadCached(r, p, wants) \/ ReadRow(r, p, wants)
       \/ \E p \in Processes : ReadSignature(r, p)
       \/ Store(r) \/ GetToken(r) \/ SignSeed(r) \/ RenewToken(r) \/ RenewalFails(r) \/ Return(r)
  \/ \E e \in Emitters :
       \/ Reserve(e) \/ FindCaf(e) \/ EnsureBrand(e) \/ FindFirst(e) \/ InsertFirst(e)
       \/ Commit(e) \/ Rollback(e)

Spec == Init /\ [][Next]_vars
-----------------------------------------------------------------------------
(* Properties *)

\* Types of the row, the caches and the calls.
TypeOK ==
  /\ now \in 1..MaxTime
  /\ log \in Seq(Config) /\ ended \in Seq(Nat) /\ Len(log) = Len(ended) + 1
  /\ profiles \in Seq(Admins \cup Emitters)
  /\ lock \in Admins \cup Emitters \cup {Nobody}
  /\ admin \in [Admins -> Admin]
  /\ reader \in [Readers -> Reader]
  /\ emit \in [Emitters -> Emit]

\* Whether value i of the row is the current one or was less than age ago.
RecentBy(i, age) == i = Current \/ now - ended[i] < age

\* CONFIG_TTL_MS bounds the age of what getConfig answers, whatever the order of
\* reads, mutations and invalidations: also when a copy read before a commit is
\* stored after the commit's invalidation, or while a reservation's is open.
ConfigAge ==
  \A r \in Readers : reader[r].pc = "gotConfig" => RecentBy(reader[r].rev, ConfigTTL)

\* A replaced signature is handed out for no longer than the two TTLs together,
\* because a cached configuration may feed the signature cache.
SignatureAge ==
  \A r \in Readers : reader[r].pc = "gotSignature" =>
    \E i \in 1..Current :
      log[i].sig = reader[r].sig /\ RecentBy(i, ConfigTTL + SignatureTTL)

\* ISSUE-013: no token is handed out that the SII has let expire.
TokenLive ==
  \A r \in Readers : reader[r].pc = "gotToken" => now - reader[r].issued < SiiValidity

\* No mutation is lost, however calls and emissions overlap: a later value of the
\* row keeps every saved signature (current or archived), CAF, reserved folio
\* and setting of the earlier ones.
NothingLost ==
  \A i \in 1..(Current - 1) :
    LET old == log[i]  new == log[Current] IN
    /\ {old.sig} \cup old.archived \subseteq {new.sig, Nobody} \cup new.archived
    /\ old.other \subseteq new.other
    /\ old.cafs <= new.cafs /\ old.used <= new.used
    /\ old.brand # 0 => new.brand # 0

\* A folio reserved from a CAF that another process has just uploaded can be
\* signed: the worker's older copy of the configuration does not hide it.
ReservedHasCaf == \A e \in Emitters : emit[e].pc # "noCaf"

\* A document carries the profile that is active when it is stored.
StampedIsActive ==
  \A e \in Emitters :
    stamped[e].rev # 0 => log[stamped[e].rev].brand = stamped[e].profile

\* Once an administrator's branding was confirmed, no emission that found no
\* profile replaces it by the neutral one.
ConfirmedBrandStays ==
  (\E a \in Admins : admin[a].op = "brand" /\ admin[a].pc = "done")
    => profiles[log[Current].brand] \in Admins

\* createNextVersion gives up only when as many other versions as it has attempts
\* were created meanwhile: with one contender fewer, every call gets a version.
FailsOnlyWhenCrowded ==
  \A a \in Admins : admin[a].pc = "failed" => Len(profiles) >= MaxTries

\* The three caches of a process, however their fillings and invalidations meet
\* the commits of both processes: no copy outlives its TTL.
CopiesExpire == ConfigAge /\ SignatureAge /\ TokenLive

\* Emissions and administrators agree on the branding that is active.
BrandIsKept == StampedIsActive /\ ConfirmedBrandStays
===============================================================================
