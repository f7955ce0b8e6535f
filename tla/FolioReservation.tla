--------------------------- MODULE FolioReservation ---------------------------
(***************************************************************************)
(* Folio reservation of one tenant: the CAF ranges kept in the tenant's    *)
(* configuration row, the transactions that upload a CAF and the ones that *)
(* reserve the next folio and create the document that carries it.         *)
(*                                                                         *)
(* Code: framework/sii/tenant-config.service.ts (uploadCaf, mutateConfig,  *)
(* reserveFolioAtomic), caf.service.ts and application/dte/emit-dte's      *)
(* prepare, which the processor runs inside tenantTransaction: reservation *)
(* and document share one commit.                                          *)
(***************************************************************************)
EXTENDS Integers

CONSTANTS
  Txns,      \* concurrent database transactions
  Types,     \* DTE types
  CafFiles,  \* CAF files an operator may upload, any number of times
  MaxLoads,  \* bound on the uploads of a behaviour
  NoTxn

\* validateSurgicalRules refuses a file with D <= 0 or D > H.
ASSUME CafFilesAssumption ==
  \A f \in CafFiles : /\ f \in [type: Types, rangeFrom: Nat, rangeTo: Nat]
                      /\ 0 < f.rangeFrom /\ f.rangeFrom <= f.rangeTo
ASSUME NoTxnAssumption == NoTxn \notin Txns
ASSUME LoadsAssumption == MaxLoads \in Nat

VARIABLES
  cafs,   \* config_json.cafs as committed; pos is the place in the array
  dtes,   \* dte_documents as committed: <<type, folio>>
  lock,   \* holder of the tenant's advisory lock
  txn,    \* per transaction: what it does and what it would commit
  loads   \* uploads so far, which number the array places

vars == <<cafs, dtes, lock, txn, loads>>

Caf == [type: Types, rangeFrom: Nat, rangeTo: Nat, lastUsed: Nat, pos: Nat]

\* view is config_json.cafs as the transaction would commit it, doc the
\* document it would create.
Txn == [pc: {"idle", "locked", "reserved"}, view: SUBSET Caf,
        doc: SUBSET (Types \X Nat)]
IdleTxn == [pc |-> "idle", view |-> {}, doc |-> {}]

Init ==
  /\ cafs = {}
  /\ dtes = {}
  /\ lock = NoTxn
  /\ txn = [t \in Txns |-> IdleTxn]
  /\ loads = 0

\* Mutant: the configuration is read without the advisory lock.
BeginUnlocked(t) ==
  /\ txn[t].pc = "idle"
  /\ lock' = t
  /\ txn' = [txn EXCEPT ![t] = [pc |-> "locked", view |-> cafs, doc |-> {}]]
  /\ UNCHANGED <<cafs, dtes, loads>>

\* pg_advisory_xact_lock, then the row is read: nothing read before the lock
\* is used after it.
Begin(t) ==
  /\ txn[t].pc = "idle"
  /\ lock = NoTxn
  /\ lock' = t
  /\ txn' = [txn EXCEPT ![t] = [pc |-> "locked", view |-> cafs, doc |-> {}]]
  /\ UNCHANGED <<cafs, dtes, loads>>

\* Commit and rollback release the lock.
End(t) ==
  /\ lock' = IF lock = t THEN NoTxn ELSE lock
  /\ txn' = [txn EXCEPT ![t] = IdleTxn]

\* CAFs of the type that still have a folio, and the first of them.
Open(view, type) == {c \in view : c.type = type /\ c.lastUsed < c.rangeTo}
IsFirst(c, S) == c \in S /\ \A e \in S : c.pos <= e.pos

\* reserveFolioAtomic advances the first open CAF of the type.
Reserve(t, type) ==
  /\ txn[t].pc = "locked"
  /\ \E c \in txn[t].view :
       /\ IsFirst(c, Open(txn[t].view, type))
       /\ txn' = [txn EXCEPT ![t] =
            [pc |-> "reserved",
             view |-> (@.view \ {c}) \cup {[c EXCEPT !.lastUsed = @ + 1]},
             doc |-> {<<type, c.lastUsed + 1>>}]]
  /\ UNCHANGED <<cafs, dtes, lock, loads>>

\* prepare creates the document and the transaction commits both.
Create(t) ==
  /\ txn[t].pc = "reserved"
  /\ cafs' = txn[t].view
  /\ dtes' = dtes \cup txn[t].doc
  /\ End(t)
  /\ UNCHANGED loads

\* Mutant: the reservation commits on its own, before the document.
RollbackBurns(t) ==
  /\ txn[t].pc # "idle"
  /\ cafs' = txn[t].view
  /\ End(t)
  /\ UNCHANGED <<dtes, loads>>

\* No CAF, no open CAF, an overlapping file, an unusable key or certificate, a
\* database error or a crash: nothing is committed.
Rollback(t) ==
  /\ txn[t].pc # "idle"
  /\ End(t)
  /\ UNCHANGED <<cafs, dtes, loads>>

Overlaps(c, f) ==
  c.type = f.type /\ c.rangeFrom <= f.rangeTo /\ c.rangeTo >= f.rangeFrom

SameRange(c, f) == c.rangeFrom = f.rangeFrom /\ c.rangeTo = f.rangeTo

\* Mutant: the file's own start is taken instead of the loaded folio.
LastUsedForgotten(old, f) == {f.rangeFrom - 1}

\* The last used folio a loaded file starts from (a singleton): the one of the
\* range it replaces, or the one before the range.
LastUsed(old, f) ==
  {n \in {c.lastUsed : c \in old} \cup {f.rangeFrom - 1} :
     \A c \in old : n >= c.lastUsed}

\* uploadCaf: a file that overlaps another range is refused; one with a loaded
\* range replaces it, keeps its last used folio and moves to the end.
Upload(t, f) ==
  LET view == txn[t].view
      old == {c \in view : Overlaps(c, f)}
      kept == {c \in view : ~(c.type = f.type /\ c.rangeFrom = f.rangeFrom)}
  IN
  /\ txn[t].pc = "locked"
  /\ loads < MaxLoads
  /\ \A c \in old : SameRange(c, f)
  /\ \E last \in LastUsed(old, f) :
       cafs' = kept \cup {[type |-> f.type, rangeFrom |-> f.rangeFrom,
                           rangeTo |-> f.rangeTo, lastUsed |-> last, pos |-> loads]}
  /\ loads' = loads + 1
  /\ End(t)
  /\ UNCHANGED dtes

Next ==
  \E t \in Txns :
    \/ Begin(t) \/ Create(t) \/ Rollback(t)
    \/ \E type \in Types : Reserve(t, type)
    \/ \E f \in CafFiles : Upload(t, f)

Spec == Init /\ [][Next]_vars
-----------------------------------------------------------------------------
\* Types of the configuration's CAF array, the documents, the advisory lock and
\* what each transaction would commit.
TypeOK ==
  /\ cafs \subseteq Caf
  /\ dtes \subseteq Types \X Nat
  /\ lock \in Txns \cup {NoTxn}
  /\ txn \in [Txns -> Txn]
  /\ loads \in Nat

\* The folios a set of CAFs accounts for as used.
Used(c) == {<<c.type, n>> : n \in c.rangeFrom..c.lastUsed}
Consumed(S) == UNION {Used(c) : c \in S}

\* Loaded ranges of one type never share a folio.
Disjoint(S) == \A c, e \in S : Overlaps(c, e) => c = e

\* reserveFolioAtomic and prepare share one commit, so the folios on documents
\* are exactly the folios the CAFs account for: none is outside an authorised
\* range, and none is burned by an emission that fails after its reservation.
FoliosAccounted == dtes = Consumed(cafs)

\* The folio that reserveFolioAtomic gives to a transaction in progress is on no
\* document, whatever was uploaded before, so no emission can reach the unique index (tenant, type, folio) of dte_documents.
NeverReissued == \A t \in Txns : txn[t].doc \cap dtes = {}

\* No uploadCaf or reserveFolioAtomic, in whatever order, gives a used folio back: a
\* loaded range stays loaded and its last used folio never goes down.
NeverGivenBack ==
  [][\A c \in cafs : \E e \in cafs' : /\ e.type = c.type /\ SameRange(e, c)
                                      /\ e.lastUsed >= c.lastUsed]_vars
===============================================================================
