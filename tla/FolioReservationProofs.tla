------------------------ MODULE FolioReservationProofs ------------------------
(***************************************************************************)
(* The folio properties of FolioReservation, and the stock FolioStatus     *)
(* shows, for every set of types, files and concurrent transactions.       *)
(***************************************************************************)
EXTENDS FolioStatus, FunctionTheorems, FiniteSetTheorems, WellFoundedInduction, TLAPS

\* A CAF after the reservation of its next folio.
Advanced(c) == [c EXCEPT !.lastUsed = @ + 1]

\* Only the holder of the advisory lock is in a transaction.
LockInv == \A t \in Txns : txn[t].pc # "idle" => lock = t

\* Loaded ranges are disjoint and well formed, their last used folio inside.
CafsInv ==
  /\ Disjoint(cafs)
  /\ \A c \in cafs : /\ 0 < c.rangeFrom /\ c.rangeFrom <= c.rangeTo
                     /\ c.rangeFrom - 1 <= c.lastUsed /\ c.lastUsed <= c.rangeTo

\* What the transaction t, which holds the lock, would commit.
ViewInv(t) ==
  /\ txn[t].pc = "idle" => txn[t].doc = {}
  /\ txn[t].pc = "locked" => txn[t].view = cafs /\ txn[t].doc = {}
  /\ txn[t].pc = "reserved" =>
       \E c \in cafs : /\ c.lastUsed < c.rangeTo
                       /\ txn[t].view = (cafs \ {c}) \cup {Advanced(c)}
                       /\ txn[t].doc = {<<c.type, c.lastUsed + 1>>}

\* The inductive invariant.
IInv == TypeOK /\ LockInv /\ CafsInv /\ FoliosAccounted /\ \A t \in Txns : ViewInv(t)

-----------------------------------------------------------------------------
\* Membership in the folios a set of CAFs accounts for.
LEMMA ConsumedElement ==
  ASSUME NEW S, S \subseteq Caf, NEW x
  PROVE  x \in Consumed(S) <=>
           \E c \in S : \E n \in Nat : /\ x = <<c.type, n>>
                                       /\ c.rangeFrom <= n /\ n <= c.lastUsed
  BY DEF Consumed, Used, Caf

\* Reserving a folio makes exactly that folio consumed.
LEMMA AdvanceConsumes ==
  ASSUME NEW S, S \subseteq Caf, NEW c \in S, c.rangeFrom - 1 <= c.lastUsed
  PROVE  Consumed((S \ {c}) \cup {Advanced(c)})
           = Consumed(S) \cup {<<c.type, c.lastUsed + 1>>}
  <1> DEFINE T == (S \ {c}) \cup {Advanced(c)}
  <1>1. /\ Advanced(c) \in Caf /\ Advanced(c).type = c.type
        /\ Advanced(c).rangeFrom = c.rangeFrom /\ Advanced(c).lastUsed = c.lastUsed + 1
    BY DEF Advanced, Caf
  <1>2. T \subseteq Caf
    BY <1>1
  <1>3. ASSUME NEW x \in Consumed(T)
        PROVE  x \in Consumed(S) \cup {<<c.type, c.lastUsed + 1>>}
    <2>1. PICK e \in T, n \in Nat : x = <<e.type, n>> /\ e.rangeFrom <= n /\ n <= e.lastUsed
      BY <1>2, <1>3, ConsumedElement
    <2>2. CASE e \in S
      BY <2>1, <2>2, ConsumedElement
    <2>3. CASE e = Advanced(c) /\ n # c.lastUsed + 1
      <3>1. x = <<c.type, n>> /\ c.rangeFrom <= n /\ n <= c.lastUsed
        BY <1>1, <2>1, <2>3 DEF Caf
      <3> QED
        BY <3>1, <2>1, ConsumedElement
    <2>4. CASE e = Advanced(c) /\ n = c.lastUsed + 1
      BY <1>1, <2>1, <2>4
    <2> QED
      BY <2>1, <2>2, <2>3, <2>4
  <1>4. ASSUME NEW x \in Consumed(S)
        PROVE  x \in Consumed(T)
    <2>1. PICK e \in S, n \in Nat : x = <<e.type, n>> /\ e.rangeFrom <= n /\ n <= e.lastUsed
      BY <1>4, ConsumedElement
    <2>2. CASE e # c
      BY <1>2, <2>1, <2>2, ConsumedElement
    <2>3. CASE e = c
      <3>1. Advanced(c) \in T
        OBVIOUS
      <3>2. /\ x = <<Advanced(c).type, n>> /\ Advanced(c).rangeFrom <= n
            /\ n <= Advanced(c).lastUsed
        BY <1>1, <2>1, <2>3 DEF Caf
      <3> QED
        BY <1>2, <2>1, <3>1, <3>2, ConsumedElement
    <2> QED
      BY <2>2, <2>3
  <1>5. <<c.type, c.lastUsed + 1>> \in Consumed(T)
    <2>1. Advanced(c) \in T
      OBVIOUS
    <2>2. /\ c.lastUsed + 1 \in Nat /\ Advanced(c).rangeFrom <= c.lastUsed + 1
          /\ c.lastUsed + 1 <= Advanced(c).lastUsed
      BY <1>1 DEF Caf
    <2> QED
      BY <1>1, <1>2, <2>1, <2>2, ConsumedElement
  <1> QED
    BY <1>3, <1>4, <1>5

\* Reserving keeps the ranges disjoint and well formed.
LEMMA AdvanceKeepsCafs ==
  ASSUME NEW c \in cafs, c.lastUsed < c.rangeTo, CafsInv, cafs \subseteq Caf,
         cafs' = (cafs \ {c}) \cup {Advanced(c)}
  PROVE  CafsInv' /\ cafs' \subseteq Caf
  <1>1. /\ Advanced(c) \in Caf /\ Advanced(c).type = c.type
        /\ Advanced(c).rangeFrom = c.rangeFrom /\ Advanced(c).rangeTo = c.rangeTo
        /\ Advanced(c).lastUsed = c.lastUsed + 1
    BY DEF Advanced, Caf
  <1>2. Disjoint(cafs')
    <2> SUFFICES ASSUME NEW a \in cafs', NEW b \in cafs', Overlaps(a, b)
                 PROVE  a = b
      BY DEF Disjoint
    <2>1. CASE a \in cafs \ {c} /\ b \in cafs \ {c}
      BY <2>1 DEF CafsInv, Disjoint
    <2>2. CASE a = Advanced(c) /\ b \in cafs \ {c}
      <3>1. Overlaps(c, b)
        BY <1>1, <2>2 DEF Overlaps
      <3> QED
        BY <3>1, <2>2 DEF CafsInv, Disjoint
    <2>3. CASE a \in cafs \ {c} /\ b = Advanced(c)
      <3>1. Overlaps(a, c)
        BY <1>1, <2>3 DEF Overlaps
      <3> QED
        BY <3>1, <2>3 DEF CafsInv, Disjoint
    <2> QED
      BY <2>1, <2>2, <2>3
  <1>3. ASSUME NEW e \in cafs'
        PROVE  /\ 0 < e.rangeFrom /\ e.rangeFrom <= e.rangeTo
               /\ e.rangeFrom - 1 <= e.lastUsed /\ e.lastUsed <= e.rangeTo
    <2>1. CASE e \in cafs
      BY <2>1 DEF CafsInv
    <2>2. CASE e = Advanced(c)
      BY <1>1, <2>2 DEF CafsInv, Caf
    <2> QED
      BY <2>1, <2>2
  <1> QED
    BY <1>1, <1>2, <1>3 DEF CafsInv

\* The CAF that the upload of file f stores.
Stored(f, last, place) ==
  [type |-> f.type, rangeFrom |-> f.rangeFrom, rangeTo |-> f.rangeTo,
   lastUsed |-> last, pos |-> place]

\* An upload that is not refused keeps every other CAF, and keeps the last
\* used folio of the range it replaces.
LEMMA UploadReplaces ==
  ASSUME IInv, NEW t \in Txns, NEW f \in CafFiles, Upload(t, f)
  PROVE  \E last \in Nat :
           /\ f.rangeFrom - 1 <= last /\ last <= f.rangeTo
           /\ \A c \in cafs : Overlaps(c, f) => SameRange(c, f) /\ c.lastUsed = last
           /\ (\A c \in cafs : ~Overlaps(c, f)) => last = f.rangeFrom - 1
           /\ cafs' = {c \in cafs : ~Overlaps(c, f)} \cup {Stored(f, last, loads)}
  <1>1. txn[t].view = cafs
    BY DEF IInv, ViewInv, Upload
  <1>2. /\ f.type \in Types /\ f.rangeFrom \in Nat /\ f.rangeTo \in Nat
        /\ 0 < f.rangeFrom /\ f.rangeFrom <= f.rangeTo
    BY CafFilesAssumption
  <1>3. \A c \in cafs : /\ c \in Caf /\ c.rangeFrom \in Nat /\ c.rangeTo \in Nat
                        /\ c.lastUsed \in Nat /\ 0 < c.rangeFrom
                        /\ c.rangeFrom <= c.rangeTo
                        /\ c.rangeFrom - 1 <= c.lastUsed /\ c.lastUsed <= c.rangeTo
    BY DEF IInv, TypeOK, CafsInv, Caf
  <1> DEFINE old == {c \in cafs : Overlaps(c, f)}
             kept == {c \in cafs : ~(c.type = f.type /\ c.rangeFrom = f.rangeFrom)}
  <1>4. PICK last \in {c.lastUsed : c \in old} \cup {f.rangeFrom - 1} :
           /\ \A c \in old : last >= c.lastUsed
           /\ cafs' = kept \cup {Stored(f, last, loads)}
    BY <1>1 DEF Upload, LastUsed, Stored
  <1>5. \A c \in old : SameRange(c, f)
    BY <1>1 DEF Upload
  <1>6. kept = {c \in cafs : ~Overlaps(c, f)}
    BY <1>2, <1>3, <1>5 DEF Overlaps, SameRange
  <1>7. \A c \in old : c.lastUsed = last
    <2> SUFFICES ASSUME NEW c \in old PROVE c.lastUsed = last
      OBVIOUS
    <2>1. \A e \in old : e = c
      <3> SUFFICES ASSUME NEW e \in old PROVE e = c
        OBVIOUS
      <3>1. Overlaps(e, c)
        BY <1>2, <1>5 DEF Overlaps, SameRange
      <3> QED
        BY <3>1 DEF IInv, CafsInv, Disjoint
    <2>2. last = c.lastUsed \/ last = f.rangeFrom - 1
      BY <1>4, <2>1
    <2>3. last >= c.lastUsed /\ c.rangeFrom = f.rangeFrom
      BY <1>4, <1>5 DEF SameRange
    <2> QED
      BY <1>2, <1>3, <2>2, <2>3
  <1>8. last \in Nat /\ f.rangeFrom - 1 <= last /\ last <= f.rangeTo
    <2>1. CASE last = f.rangeFrom - 1
      BY <1>2, <2>1
    <2>2. CASE \E c \in old : last = c.lastUsed
      BY <1>2, <1>3, <1>5, <2>2 DEF SameRange
    <2> QED
      BY <1>4, <2>1, <2>2
  <1>9. (\A c \in cafs : ~Overlaps(c, f)) => last = f.rangeFrom - 1
    BY <1>4
  <1> QED
    BY <1>4, <1>5, <1>6, <1>7, <1>8, <1>9

\* So an upload changes neither the folios accounted for nor the
\* well-formedness of the ranges.
LEMMA UploadKeepsCafs ==
  ASSUME IInv, NEW t \in Txns, NEW f \in CafFiles, Upload(t, f)
  PROVE  CafsInv' /\ cafs' \subseteq Caf /\ Consumed(cafs') = Consumed(cafs)
  <1>1. PICK last \in Nat :
           /\ f.rangeFrom - 1 <= last /\ last <= f.rangeTo
           /\ \A c \in cafs : Overlaps(c, f) => SameRange(c, f) /\ c.lastUsed = last
           /\ (\A c \in cafs : ~Overlaps(c, f)) => last = f.rangeFrom - 1
           /\ cafs' = {c \in cafs : ~Overlaps(c, f)} \cup {Stored(f, last, loads)}
    BY UploadReplaces
  <1> DEFINE new == Stored(f, last, loads)
  <1>2. /\ f.type \in Types /\ f.rangeFrom \in Nat /\ f.rangeTo \in Nat
        /\ 0 < f.rangeFrom /\ f.rangeFrom <= f.rangeTo
    BY CafFilesAssumption
  <1>3. /\ new \in Caf /\ new.type = f.type /\ new.rangeFrom = f.rangeFrom
        /\ new.rangeTo = f.rangeTo /\ new.lastUsed = last
    BY <1>2 DEF Stored, Caf, IInv, TypeOK
  <1>4. cafs \subseteq Caf /\ cafs' \subseteq Caf
    BY <1>1, <1>3 DEF IInv, TypeOK
  <1> HIDE DEF new
  <1>5. cafs' = {c \in cafs : ~Overlaps(c, f)} \cup {new}
    BY <1>1 DEF new
  <1>6. Disjoint(cafs')
    <2> SUFFICES ASSUME NEW a \in cafs', NEW b \in cafs', Overlaps(a, b) PROVE a = b
      BY DEF Disjoint
    <2>1. CASE a \in cafs /\ b \in cafs
      BY <2>1 DEF IInv, CafsInv, Disjoint
    <2>2. CASE a = new /\ b # new
      <3>1. b \in cafs /\ ~Overlaps(b, f)
        BY <1>5, <2>2
      <3> QED
        BY <1>3, <2>2, <3>1 DEF Overlaps
    <2>3. CASE b = new /\ a # new
      <3>1. a \in cafs /\ ~Overlaps(a, f)
        BY <1>5, <2>3
      <3> QED
        BY <1>3, <2>3, <3>1 DEF Overlaps
    <2> QED
      BY <1>5, <2>1, <2>2, <2>3
  <1>7. CafsInv'
    BY <1>1, <1>2, <1>3, <1>5, <1>6 DEF CafsInv, IInv
  <1>8. ASSUME NEW x \in Consumed(cafs') PROVE x \in Consumed(cafs)
    <2>1. PICK e \in cafs', n \in Nat : x = <<e.type, n>> /\ e.rangeFrom <= n /\ n <= e.lastUsed
      BY <1>4, <1>8, ConsumedElement
    <2>2. CASE e \in cafs
      BY <1>4, <2>1, <2>2, ConsumedElement
    <2>3. CASE e = new
      <3>1. PICK c \in cafs : Overlaps(c, f)
        BY <1>1, <1>2, <1>3, <2>1, <2>3
      <3>2. c.type = f.type /\ c.rangeFrom = f.rangeFrom /\ c.lastUsed = last
        BY <1>1, <3>1 DEF Overlaps, SameRange
      <3>3. x = <<c.type, n>> /\ c.rangeFrom <= n /\ n <= c.lastUsed
        BY <1>3, <2>1, <2>3, <3>2
      <3> QED
        BY <1>4, <2>1, <3>3, ConsumedElement
    <2> QED
      BY <1>5, <2>2, <2>3
  <1>9. ASSUME NEW x \in Consumed(cafs) PROVE x \in Consumed(cafs')
    <2>1. PICK e \in cafs, n \in Nat : x = <<e.type, n>> /\ e.rangeFrom <= n /\ n <= e.lastUsed
      BY <1>4, <1>9, ConsumedElement
    <2>2. CASE ~Overlaps(e, f)
      BY <1>4, <1>5, <2>1, <2>2, ConsumedElement
    <2>3. CASE Overlaps(e, f)
      <3>1. e.type = f.type /\ e.rangeFrom = f.rangeFrom /\ e.lastUsed = last
        BY <1>1, <2>3 DEF Overlaps, SameRange
      <3>2. x = <<new.type, n>> /\ new.rangeFrom <= n /\ n <= new.lastUsed
        BY <1>3, <2>1, <3>1
      <3> QED
        BY <1>4, <1>5, <2>1, <3>2, ConsumedElement
    <2> QED
      BY <2>2, <2>3
  <1> QED
    BY <1>4, <1>7, <1>8, <1>9
-----------------------------------------------------------------------------
\* A tenant without CAFs, documents and transactions satisfies the invariant.
LEMMA InitIInv == Init => IInv
  BY NoTxnAssumption DEF Init, IInv, TypeOK, LockInv, CafsInv, Disjoint, FoliosAccounted,
     Consumed, ViewInv, Txn, IdleTxn

\* A transaction that ends leaves no trace of itself; the others are idle,
\* because only the lock's holder is not.
LEMMA OnlyHolderActive ==
  ASSUME IInv, NEW t \in Txns, txn[t].pc # "idle", NEW u \in Txns, u # t
  PROVE  txn[u].pc = "idle" /\ txn[u].doc = {}
  BY DEF IInv, LockInv, ViewInv

\* Every step of every transaction preserves the invariant.
LEMMA NextIInv == IInv /\ [Next]_vars => IInv'
  <1> SUFFICES ASSUME IInv, [Next]_vars PROVE IInv'
    OBVIOUS
  <1>1. ASSUME NEW t \in Txns, Begin(t) PROVE IInv'
    <2>1. TypeOK' /\ CafsInv' /\ FoliosAccounted'
      BY <1>1 DEF Begin, IInv, TypeOK, Txn, CafsInv, Disjoint, FoliosAccounted, Consumed, Used
    <2>2. LockInv'
      BY <1>1, NoTxnAssumption DEF Begin, IInv, TypeOK, LockInv
    <2>3. \A u \in Txns : ViewInv(u)'
      BY <1>1 DEF Begin, IInv, TypeOK, ViewInv
    <2> QED
      BY <2>1, <2>2, <2>3 DEF IInv
  <1>2. ASSUME NEW t \in Txns, NEW type \in Types, Reserve(t, type) PROVE IInv'
    <2>1. txn[t].pc = "locked" /\ txn[t].view = cafs /\ lock = t
      BY <1>2 DEF Reserve, IInv, ViewInv, LockInv
    <2>2. PICK c \in cafs :
            /\ c.type = type /\ c.lastUsed < c.rangeTo
            /\ txn' = [txn EXCEPT ![t] = [pc |-> "reserved",
                         view |-> (cafs \ {c}) \cup {Advanced(c)},
                         doc |-> {<<type, c.lastUsed + 1>>}]]
      BY <1>2, <2>1 DEF Reserve, IsFirst, Open, Advanced, IInv, TypeOK
    <2>3. c \in Caf /\ Advanced(c) \in Caf
      BY DEF IInv, TypeOK, Caf, Advanced
    <2>4. TypeOK'
      BY <1>2, <2>2, <2>3 DEF Reserve, IInv, TypeOK, Txn, Caf
    <2>5. LockInv' /\ CafsInv' /\ FoliosAccounted'
      BY <1>2, <2>1, <2>2 DEF Reserve, IInv, TypeOK, LockInv, CafsInv, Disjoint,
         FoliosAccounted, Consumed, Used
    <2>6. \A u \in Txns : ViewInv(u)'
      BY <1>2, <2>2 DEF Reserve, IInv, TypeOK, ViewInv
    <2> QED
      BY <2>4, <2>5, <2>6 DEF IInv
  <1>3. ASSUME NEW t \in Txns, Create(t) PROVE IInv'
    <2>1. PICK c \in cafs : /\ c.lastUsed < c.rangeTo
                            /\ cafs' = (cafs \ {c}) \cup {Advanced(c)}
                            /\ dtes' = dtes \cup {<<c.type, c.lastUsed + 1>>}
      BY <1>3 DEF Create, IInv, ViewInv
    <2>2. CafsInv' /\ cafs' \subseteq Caf
      BY <2>1, AdvanceKeepsCafs DEF IInv, TypeOK
    <2>3. FoliosAccounted'
      <3>1. c.rangeFrom - 1 <= c.lastUsed /\ cafs \subseteq Caf
        BY DEF IInv, CafsInv, TypeOK
      <3>2. Consumed(cafs') = Consumed(cafs) \cup {<<c.type, c.lastUsed + 1>>}
        BY <2>1, <3>1, AdvanceConsumes
      <3> QED
        BY <2>1, <3>2 DEF IInv, FoliosAccounted
    <2>4. TypeOK'
      BY <1>3, <2>1, <2>2 DEF Create, End, IInv, TypeOK, Txn, IdleTxn, Caf
    <2>5. LockInv' /\ \A u \in Txns : ViewInv(u)'
      BY <1>3, OnlyHolderActive DEF Create, End, IInv, TypeOK, LockInv, ViewInv, IdleTxn
    <2> QED
      BY <2>2, <2>3, <2>4, <2>5 DEF IInv
  <1>4. ASSUME NEW t \in Txns, Rollback(t) PROVE IInv'
    <2>1. TypeOK' /\ CafsInv' /\ FoliosAccounted'
      BY <1>4 DEF Rollback, End, IInv, TypeOK, Txn, IdleTxn, CafsInv, Disjoint,
         FoliosAccounted, Consumed, Used
    <2>2. LockInv' /\ \A u \in Txns : ViewInv(u)'
      BY <1>4, OnlyHolderActive DEF Rollback, End, IInv, TypeOK, LockInv, ViewInv, IdleTxn
    <2> QED
      BY <2>1, <2>2 DEF IInv
  <1>5. ASSUME NEW t \in Txns, NEW f \in CafFiles, Upload(t, f) PROVE IInv'
    <2>1. CafsInv' /\ cafs' \subseteq Caf /\ Consumed(cafs') = Consumed(cafs)
      BY <1>5, UploadKeepsCafs
    <2>2. TypeOK' /\ FoliosAccounted'
      BY <1>5, <2>1 DEF Upload, End, IInv, TypeOK, Txn, IdleTxn, FoliosAccounted
    <2>3. txn[t].pc # "idle"
      BY <1>5 DEF Upload
    <2>4. LockInv' /\ \A u \in Txns : ViewInv(u)'
      BY <1>5, <2>3, OnlyHolderActive DEF Upload, End, IInv, TypeOK, LockInv, ViewInv, IdleTxn
    <2> QED
      BY <2>1, <2>2, <2>4 DEF IInv
  <1>6. CASE UNCHANGED vars
    BY <1>6 DEF vars, IInv, TypeOK, LockInv, CafsInv, Disjoint, FoliosAccounted, Consumed,
       Used, ViewInv
  <1> QED
    BY <1>1, <1>2, <1>3, <1>4, <1>5, <1>6 DEF Next

\* In every reachable state only the lock's holder is active, the ranges are
\* disjoint, the folios are accounted for, and the holder's view is the
\* committed array with at most one more folio used.
THEOREM InductiveInvariant == Spec => []IInv
  BY InitIInv, NextIInv, PTL DEF Spec

\* Type correctness of the configuration, the documents and the transactions.
THEOREM TypeCorrect == Spec => []TypeOK
  BY InductiveInvariant, PTL DEF IInv

\* The documents' folios are exactly the folios the loaded CAFs account for:
\* every emission uses an authorised folio and a failed one burns none.
THEOREM FoliosAreAccounted == Spec => []FoliosAccounted
  BY InductiveInvariant, PTL DEF IInv

\* The next folio of a range is used by no other range, so it is on no document.
LEMMA IInvNeverReissued == IInv => NeverReissued
  <1> SUFFICES ASSUME IInv, NEW t \in Txns, NEW x \in txn[t].doc, x \in dtes PROVE FALSE
    BY DEF NeverReissued
  <1>1. PICK c \in cafs : c.lastUsed < c.rangeTo /\ x = <<c.type, c.lastUsed + 1>>
    BY DEF IInv, ViewInv, TypeOK, Txn
  <1>2. PICK e \in cafs, n \in Nat : x = <<e.type, n>> /\ e.rangeFrom <= n /\ n <= e.lastUsed
    BY ConsumedElement DEF IInv, FoliosAccounted, TypeOK
  <1>3. n = c.lastUsed + 1 /\ e.type = c.type
    BY <1>1, <1>2
  <1>4. Overlaps(c, e)
    BY <1>1, <1>2, <1>3 DEF Overlaps, IInv, CafsInv, TypeOK, Caf
  <1> QED
    BY <1>2, <1>3, <1>4 DEF IInv, CafsInv, Disjoint, TypeOK, Caf

\* reserveFolioAtomic never reissues: no transaction ever holds a reserved folio that a document already has.
THEOREM NeverReissuesFolio == Spec => []NeverReissued
  BY InductiveInvariant, IInvNeverReissued, PTL

\* S has the range of c, with no fewer folios used.
Kept(c, S) == \E e \in S : e.type = c.type /\ SameRange(e, c) /\ e.lastUsed >= c.lastUsed

\* No step gives a used folio back.
LEMMA RangesStay ==
  ASSUME IInv, [Next]_vars, NEW c \in cafs
  PROVE  Kept(c, cafs')
  <1>1. c \in Caf /\ c.lastUsed \in Nat
    BY DEF IInv, TypeOK, Caf
  <1>2. CASE cafs' = cafs
    BY <1>1, <1>2 DEF SameRange, Kept
  <1>3. ASSUME NEW t \in Txns, Create(t) PROVE Kept(c, cafs')
    <2>1. PICK d \in cafs : cafs' = (cafs \ {d}) \cup {Advanced(d)}
      BY <1>3 DEF Create, IInv, ViewInv
    <2>2. CASE d # c
      BY <1>1, <2>1, <2>2 DEF SameRange, Kept
    <2>3. CASE d = c
      <3>1. /\ Advanced(c) \in cafs' /\ Advanced(c).type = c.type
            /\ SameRange(Advanced(c), c) /\ Advanced(c).lastUsed = c.lastUsed + 1
        BY <1>1, <2>1, <2>3 DEF Advanced, Caf, SameRange
      <3> QED
        BY <1>1, <3>1 DEF Kept
    <2> QED
      BY <2>2, <2>3
  <1>4. ASSUME NEW t \in Txns, NEW f \in CafFiles, Upload(t, f) PROVE Kept(c, cafs')
    <2>1. PICK last \in Nat :
             /\ \A e \in cafs : Overlaps(e, f) => SameRange(e, f) /\ e.lastUsed = last
             /\ cafs' = {e \in cafs : ~Overlaps(e, f)} \cup {Stored(f, last, loads)}
      BY <1>1, <1>4, UploadReplaces
    <2>2. CASE ~Overlaps(c, f)
      BY <1>1, <2>1, <2>2 DEF SameRange, Kept
    <2>3. CASE Overlaps(c, f)
      <3>1. /\ Stored(f, last, loads) \in cafs' /\ Stored(f, last, loads).type = c.type
            /\ SameRange(Stored(f, last, loads), c)
            /\ Stored(f, last, loads).lastUsed = c.lastUsed
        BY <2>1, <2>3 DEF Stored, SameRange, Overlaps
      <3> QED
        BY <1>1, <3>1 DEF Kept
    <2> QED
      BY <2>2, <2>3
  <1> QED
    BY <1>1, <1>2, <1>3, <1>4 DEF Next, vars, Begin, Reserve, Rollback

\* uploadCaf and reserveFolioAtomic never give a used folio back.
THEOREM UsedFoliosStay == Spec => NeverGivenBack
  <1>1. IInv /\ [Next]_vars =>
          [\A c \in cafs : \E e \in cafs' : /\ e.type = c.type /\ SameRange(e, c)
                                            /\ e.lastUsed >= c.lastUsed]_vars
    BY RangesStay DEF Kept
  <1> QED
    BY <1>1, InductiveInvariant, PTL DEF Spec, NeverGivenBack
-----------------------------------------------------------------------------
(* The stock shown while folios are reserved *)

\* A set of numbers that is not empty has a least one: the induction on sizes of
\* the lemmas below.
LEMMA LeastNumber ==
  ASSUME NEW T \in SUBSET Nat, T # {}
  PROVE  \E n \in T : \A m \in T : n <= m
  <1>1. PICK n \in T : \A m \in T : ~(<<m, n>> \in OpToRel(<, Nat))
    BY NatLessThanWellFounded, WFMin
  <1>2. ASSUME NEW m \in T PROVE n <= m
    <2>1. ~(m < n)
      BY <1>1 DEF OpToRel
    <2> QED
      BY <2>1
  <1> QED
    BY <1>2

\* A subset is smaller by one without one of its elements.
LEMMA OneLess ==
  ASSUME NEW S, IsFiniteSet(S), NEW s \in SUBSET S, NEW x \in s
  PROVE  /\ Cardinality(s) \in Nat /\ Cardinality(s \ {x}) \in Nat
         /\ Cardinality(s \ {x}) = Cardinality(s) - 1
  BY FS_Subset, FS_RemoveElement, FS_CardinalityType

\* The step of the fold in MapThenSumSet, with f for the values.
Step(f, s, g) == IF s = {} THEN 0
                 ELSE LET x == CHOOSE x \in s : TRUE IN f[x] + g[s \ {x}]
Folds(f, S, g) == g = [s \in SUBSET S |-> Step(f, s, g)]

\* The recursive function of the fold exists for a finite set.
LEMMA FoldExists ==
  ASSUME NEW S, IsFiniteSet(S), NEW f
  PROVE  \E g : Folds(f, S, g)
  <1> DEFINE Upto(n, g) == \A s \in SUBSET S : Cardinality(s) <= n => g[s] = Step(f, s, g)
             Bad == {n \in Nat : ~\E g : Upto(n, g)}
  <1>1. \A s \in SUBSET S : Cardinality(s) \in Nat
    BY FS_Subset, FS_CardinalityType
  <1>2. Bad = {}
    <2> SUFFICES ASSUME Bad # {} PROVE FALSE
      OBVIOUS
    <2>1. PICK n \in Bad : \A m \in Bad : n <= m
      BY LeastNumber
    <2>2. CASE n = 0
      <3> DEFINE g == [s \in SUBSET S |-> 0]
      <3>1. ASSUME NEW s \in SUBSET S, Cardinality(s) <= 0 PROVE s = {}
        BY <1>1, <3>1, FS_Subset, FS_EmptySet
      <3>2. Upto(0, g)
        BY <3>1 DEF Step
      <3> QED
        BY <2>1, <2>2, <3>2
    <2>3. CASE n # 0
      <3>1. n - 1 \in Nat /\ n - 1 \notin Bad
        BY <2>1, <2>3
      <3>2. PICK g : Upto(n - 1, g)
        BY <3>1
      <3> DEFINE h == [s \in SUBSET S |->
                         IF Cardinality(s) <= n - 1 THEN g[s] ELSE Step(f, s, g)]
      <3>3. ASSUME NEW s \in SUBSET S, Cardinality(s) <= n PROVE h[s] = Step(f, s, h)
        <4>1. h[s] = Step(f, s, g)
          BY <3>2
        <4>2. CASE s = {}
          BY <4>1, <4>2 DEF Step
        <4>3. CASE s # {}
          <5> DEFINE x == CHOOSE x \in s : TRUE
          <5>1. x \in s
            BY <4>3
          <5>2. \A y \in s : /\ Cardinality(s) \in Nat
                             /\ Cardinality(s \ {y}) = Cardinality(s) - 1
            BY OneLess
          <5>3. s \ {x} \in SUBSET S /\ Cardinality(s \ {x}) <= n - 1
            <6> HIDE DEF x
            <6>1. Cardinality(s) \in Nat /\ n \in Nat
              BY <1>1
            <6> QED
              BY <3>3, <5>1, <5>2, <6>1
          <5>4. h[s \ {x}] = g[s \ {x}]
            BY <5>3
          <5> QED
            BY <4>1, <4>3, <5>4 DEF Step
        <4> QED
          BY <4>2, <4>3
      <3>4. Upto(n, h)
        BY <3>3
      <3> QED
        BY <2>1, <3>4
    <2> QED
      BY <2>2, <2>3
  <1>3. PICK g : Upto(Cardinality(S), g)
    BY <1>1, <1>2
  <1>4. ASSUME NEW s \in SUBSET S PROVE Cardinality(s) <= Cardinality(S)
    BY FS_Subset
  <1> DEFINE h == [s \in SUBSET S |-> g[s]]
  <1>5. ASSUME NEW s \in SUBSET S PROVE h[s] = Step(f, s, h)
    <2>1. h[s] = Step(f, s, g)
      BY <1>3, <1>4
    <2>2. CASE s = {}
      BY <2>1, <2>2 DEF Step
    <2>3. CASE s # {}
      <3> DEFINE x == CHOOSE x \in s : TRUE
      <3>1. h[s \ {x}] = g[s \ {x}]
        OBVIOUS
      <3> QED
        BY <2>1, <2>3, <3>1 DEF Step
    <2> QED
      BY <2>2, <2>3
  <1>6. h = [s \in SUBSET S |-> Step(f, s, h)]
    BY <1>5
  <1> QED
    BY <1>6 DEF Folds

\* The folios of a range, the ones on documents of a type, and those of a set of
\* ranges that are on none.
Folios(c) == c.rangeFrom..c.rangeTo
OnDocuments(type) == {n \in Nat : <<type, n>> \in dtes}
Free(c) == Folios(c) \ OnDocuments(c.type)
FreeOf(S) == UNION {Free(c) : c \in S}

LEMMA FoliosFinite ==
  ASSUME NEW c \in Caf
  PROVE  /\ IsFiniteSet(Folios(c))
         /\ c.rangeFrom <= c.rangeTo => Cardinality(Folios(c)) = c.rangeTo - c.rangeFrom + 1
  <1>1. c.rangeFrom \in Int /\ c.rangeTo \in Int
    BY DEF Caf
  <1>2. \A a, b \in Int : IsFiniteSet(a..b) /\ Cardinality(a..b) = IF a > b THEN 0 ELSE b - a + 1
    BY FS_Interval
  <1>3. /\ IsFiniteSet(c.rangeFrom..c.rangeTo)
        /\ Cardinality(c.rangeFrom..c.rangeTo) =
             IF c.rangeFrom > c.rangeTo THEN 0 ELSE c.rangeTo - c.rangeFrom + 1
    BY <1>1, <1>2, Zenon
  <1> QED
    BY <1>1, <1>3 DEF Folios

\* countInCaf counts the folios of its range that are on documents.
LEMMA CountIsUsed ==
  ASSUME NEW c \in Caf, dtes \subseteq Types \X Nat
  PROVE  /\ IsFiniteSet(Folios(c) \cap OnDocuments(c.type))
         /\ countInCaf(c) = Cardinality(Folios(c) \cap OnDocuments(c.type))
  <1> DEFINE N == Folios(c) \cap OnDocuments(c.type)
             D == {d \in dtes : d[1] = c.type /\ d[2] >= c.rangeFrom /\ d[2] <= c.rangeTo}
             F == [n \in N |-> <<c.type, n>>]
  <1>1. c.rangeFrom \in Nat /\ c.rangeTo \in Nat
    BY DEF Caf
  <1>2. IsFiniteSet(N)
    BY FoliosFinite, FS_Intersection
  <1>3. F \in Bijection(N, D)
    <2>1. F \in [N -> D]
      BY <1>1 DEF Folios, OnDocuments
    <2>2. \A a, b \in N : F[a] = F[b] => a = b
      OBVIOUS
    <2>3. ASSUME NEW d \in D PROVE \E n \in N : F[n] = d
      <3>1. d = <<c.type, d[2]>> /\ d[2] \in N
        BY <1>1 DEF Folios, OnDocuments
      <3> QED
        BY <3>1
    <2> QED
      BY <2>1, <2>2, <2>3, Fun_IsBij
  <1>4. Cardinality(D) = Cardinality(N)
    BY <1>2, <1>3, Fun_ExistsBij, FS_Bijection
  <1> QED
    BY <1>2, <1>4 DEF countInCaf

\* Size and count of a range differ by its free folios.
LEMMA FreeInRange ==
  ASSUME NEW c \in Caf, c.rangeFrom <= c.rangeTo, dtes \subseteq Types \X Nat
  PROVE  /\ IsFiniteSet(Free(c)) /\ countInCaf(c) \in Nat
         /\ c.rangeTo - c.rangeFrom + 1 = countInCaf(c) + Cardinality(Free(c))
  <1>1. c.rangeFrom \in Nat /\ c.rangeTo \in Nat
    BY DEF Caf
  <1>2. IsFiniteSet(Folios(c)) /\ Cardinality(Folios(c)) = c.rangeTo - c.rangeFrom + 1
    BY FoliosFinite
  <1>3. /\ IsFiniteSet(Folios(c) \cap OnDocuments(c.type)) /\ IsFiniteSet(Free(c))
        /\ Folios(c) = (Folios(c) \cap OnDocuments(c.type)) \cup Free(c)
        /\ (Folios(c) \cap OnDocuments(c.type)) \cap Free(c) = {}
    BY <1>2, CountIsUsed, FS_Subset DEF Free
  <1>4. /\ Cardinality(Folios(c) \cap OnDocuments(c.type)) \in Nat
        /\ Cardinality(Free(c)) \in Nat
    BY <1>3, FS_CardinalityType
  <1>5. Cardinality(Folios(c)) = Cardinality(Folios(c) \cap OnDocuments(c.type)) + Cardinality(Free(c))
    <2>1. Cardinality({}) = 0
      BY FS_EmptySet
    <2>2. \A A, B : IsFiniteSet(A) /\ IsFiniteSet(B) =>
                   Cardinality(A \cup B) = Cardinality(A) + Cardinality(B) - Cardinality(A \cap B)
      BY FS_Union
    <2>3. Cardinality((Folios(c) \cap OnDocuments(c.type)) \cup Free(c))
            = Cardinality(Folios(c) \cap OnDocuments(c.type)) + Cardinality(Free(c))
                - Cardinality((Folios(c) \cap OnDocuments(c.type)) \cap Free(c))
      BY <1>3, <2>2, Zenon
    <2>4. /\ Cardinality((Folios(c) \cap OnDocuments(c.type)) \cap Free(c)) = 0
          /\ Cardinality(Folios(c)) =
               Cardinality((Folios(c) \cap OnDocuments(c.type)) \cup Free(c))
      BY <1>3, <2>1, Zenon
    <2> QED
      BY <1>4, <2>3, <2>4
  <1> QED
    BY <1>2, <1>3, <1>4, <1>5, CountIsUsed

\* The two sums of getFolioStatus as recursive functions of the set.
LEMMA SizesFold ==
  ASSUME NEW M, IsFiniteSet(M)
  PROVE  \E f, g : /\ f = [c \in M |-> c.rangeTo - c.rangeFrom + 1]
                   /\ Folds(f, M, g)
                   /\ MapThenSumSet(LAMBDA c : c.rangeTo - c.rangeFrom + 1, M) = g[M]
  <1> DEFINE Rest(s, g) == IF s = {} THEN 0
                           ELSE LET x == CHOOSE x \in s : TRUE
                                IN  (x.rangeTo - x.rangeFrom + 1) + g[s \ {x}]
  <1>1. PICK f : f = [c \in M |-> c.rangeTo - c.rangeFrom + 1]
    OBVIOUS
  <1>2. PICK g : g = CHOOSE e : e = [s \in SUBSET M |-> Rest(s, e)]
    OBVIOUS
  <1>3. MapThenSumSet(LAMBDA c : c.rangeTo - c.rangeFrom + 1, M) = g[M]
    BY <1>2 DEF MapThenSumSet, MapThenFoldSet
  <1>4. ASSUME NEW s \in SUBSET M, NEW e PROVE Rest(s, e) = Step(f, s, e)
    BY <1>1 DEF Step
  <1>5. Folds(f, M, g)
    <2> HIDE DEF Rest
    <2>1. PICK e : Folds(f, M, e)
      BY FoldExists
    <2>2. e = [s \in SUBSET M |-> Rest(s, e)]
      BY <1>4, <2>1 DEF Folds
    <2>3. g = [s \in SUBSET M |-> Rest(s, g)]
      BY <1>2, <2>2
    <2> QED
      BY <1>4, <2>3 DEF Folds
  <1> QED
    BY <1>1, <1>3, <1>5

LEMMA CountsFold ==
  ASSUME NEW M, IsFiniteSet(M)
  PROVE  \E f, g : /\ f = [c \in M |-> countInCaf(c)]
                   /\ Folds(f, M, g)
                   /\ MapThenSumSet(LAMBDA c : countInCaf(c), M) = g[M]
  <1> DEFINE Rest(s, g) == IF s = {} THEN 0
                           ELSE LET x == CHOOSE x \in s : TRUE IN countInCaf(x) + g[s \ {x}]
  <1>1. PICK f : f = [c \in M |-> countInCaf(c)]
    OBVIOUS
  <1>2. PICK g : g = CHOOSE e : e = [s \in SUBSET M |-> Rest(s, e)]
    OBVIOUS
  <1>3. MapThenSumSet(LAMBDA c : countInCaf(c), M) = g[M]
    BY <1>2 DEF MapThenSumSet, MapThenFoldSet
  <1>4. ASSUME NEW s \in SUBSET M, NEW e PROVE Rest(s, e) = Step(f, s, e)
    BY <1>1 DEF Step
  <1>5. Folds(f, M, g)
    <2> HIDE DEF Rest
    <2>1. PICK e : Folds(f, M, e)
      BY FoldExists
    <2>2. e = [s \in SUBSET M |-> Rest(s, e)]
      BY <1>4, <2>1 DEF Folds
    <2>3. g = [s \in SUBSET M |-> Rest(s, g)]
      BY <1>2, <2>2
    <2> QED
      BY <1>4, <2>3 DEF Folds
  <1> QED
    BY <1>1, <1>3, <1>5

Chosen(s) == CHOOSE x \in s : TRUE

\* getFolioStatus of a set of disjoint ranges counts their free folios.
LEMMA RemainingIsFree ==
  ASSUME NEW S, IsFiniteSet(S), S \subseteq Caf, \A c \in S : c.rangeFrom <= c.rangeTo,
         Disjoint(S), dtes \subseteq Types \X Nat, NEW type
  PROVE  /\ IsFiniteSet(FreeOf(matchingCafs(S, type)))
         /\ remaining(S, type) = Cardinality(FreeOf(matchingCafs(S, type)))
  <1>1. PICK M : M = matchingCafs(S, type)
    OBVIOUS
  <1>2. /\ IsFiniteSet(M) /\ M \subseteq Caf
        /\ \A c \in M : c.type = type /\ c.rangeFrom <= c.rangeTo
    BY <1>1, FS_Subset DEF matchingCafs
  <1>3. PICK f, g : /\ f = [c \in M |-> c.rangeTo - c.rangeFrom + 1]
                    /\ Folds(f, M, g) /\ totalAuthorized(S, type) = g[M]
    BY <1>1, <1>2, SizesFold DEF totalAuthorized
  <1>4. PICK e, h : /\ e = [c \in M |-> countInCaf(c)] /\ Folds(e, M, h)
                    /\ MapThenSumSet(LAMBDA c : countInCaf(c), M) = h[M]
    BY <1>2, CountsFold
  <1> DEFINE Good(s) == /\ IsFiniteSet(FreeOf(s)) /\ g[s] \in Int /\ h[s] \in Int
                        /\ g[s] = h[s] + Cardinality(FreeOf(s))
             Bad == {n \in Nat : \E s \in SUBSET M : Cardinality(s) = n /\ ~Good(s)}
  <1>5. Bad = {}
    <2> SUFFICES ASSUME Bad # {} PROVE FALSE
      OBVIOUS
    <2>1. PICK n \in Bad : \A m \in Bad : n <= m
      BY LeastNumber
    <2>2. PICK s \in SUBSET M : Cardinality(s) = n /\ ~Good(s)
      BY <2>1
    <2>3. CASE s = {}
      <3>1. FreeOf({}) = {} /\ g[{}] = 0 /\ h[{}] = 0
        BY <1>3, <1>4 DEF FreeOf, Folds, Step
      <3>2. IsFiniteSet(FreeOf(s)) /\ Cardinality(FreeOf(s)) = 0
        BY <2>3, <3>1, FS_EmptySet, Zenon
      <3>3. g[s] = 0 /\ h[s] = 0
        BY <2>3, <3>1
      <3> QED
        BY <2>2, <3>2, <3>3
    <2>4. CASE s # {}
      <3>1. PICK x : x = Chosen(s)
        OBVIOUS
      <3>2. x \in s
        BY <2>4, <3>1 DEF Chosen
      <3>3. g[s] = f[x] + g[s \ {x}] /\ h[s] = e[x] + h[s \ {x}]
        <4>1. g[s] = Step(f, s, g) /\ h[s] = Step(e, s, h)
          BY <1>3, <1>4 DEF Folds
        <4>2. \A F, G : Step(F, s, G) = F[x] + G[s \ {x}]
          BY <2>4, <3>1 DEF Step, Chosen
        <4> QED
          BY <4>1, <4>2
      <3>4. Good(s \ {x})
        <4>1. /\ Cardinality(s) \in Nat /\ Cardinality(s \ {x}) \in Nat
              /\ Cardinality(s \ {x}) = Cardinality(s) - 1
          BY <1>2, <3>2, OneLess
        <4>2. n - 1 \notin Bad
          BY <2>1
        <4> HIDE DEF Good
        <4> QED
          BY <2>2, <4>1, <4>2
      <3>5. /\ IsFiniteSet(Free(x)) /\ f[x] \in Int /\ e[x] \in Int
            /\ f[x] = e[x] + Cardinality(Free(x))
        <4>1. x \in Caf /\ x.rangeFrom <= x.rangeTo /\ x.rangeFrom \in Nat /\ x.rangeTo \in Nat
          BY <1>2, <3>2 DEF Caf
        <4>2. /\ IsFiniteSet(Free(x)) /\ countInCaf(x) \in Nat
              /\ x.rangeTo - x.rangeFrom + 1 = countInCaf(x) + Cardinality(Free(x))
          BY <4>1, FreeInRange
        <4>3. f[x] = x.rangeTo - x.rangeFrom + 1 /\ e[x] = countInCaf(x)
          BY <1>3, <1>4, <3>2
        <4> QED
          BY <4>1, <4>2, <4>3
      <3>6. FreeOf(s) = FreeOf(s \ {x}) \cup Free(x)
        BY <3>2 DEF FreeOf
      <3>7. FreeOf(s \ {x}) \cap Free(x) = {}
        <4> SUFFICES ASSUME NEW c \in s \ {x}, NEW k \in Free(c), k \in Free(x) PROVE FALSE
          BY DEF FreeOf
        <4>1. c \in S /\ x \in S /\ c \in Caf /\ x \in Caf /\ c.type = x.type
          BY <1>1, <1>2, <3>2 DEF matchingCafs
        <4>2. Overlaps(c, x)
          BY <4>1 DEF Free, Folios, Overlaps, Caf
        <4> QED
          BY <4>1, <4>2 DEF Disjoint
      <3>8. /\ IsFiniteSet(FreeOf(s))
            /\ Cardinality(FreeOf(s)) = Cardinality(FreeOf(s \ {x})) + Cardinality(Free(x))
            /\ Cardinality(FreeOf(s \ {x})) \in Nat /\ Cardinality(Free(x)) \in Nat
        <4>1. /\ Cardinality(FreeOf(s \ {x})) \in Nat /\ Cardinality(Free(x)) \in Nat
              /\ IsFiniteSet(FreeOf(s \ {x})) /\ Cardinality({}) = 0
          BY <3>4, <3>5, FS_CardinalityType, FS_EmptySet
        <4>2. \A A, B : IsFiniteSet(A) /\ IsFiniteSet(B) =>
                /\ IsFiniteSet(A \cup B)
                /\ Cardinality(A \cup B) = Cardinality(A) + Cardinality(B) - Cardinality(A \cap B)
          BY FS_Union
        <4>3. /\ IsFiniteSet(FreeOf(s \ {x}) \cup Free(x))
              /\ Cardinality(FreeOf(s \ {x}) \cup Free(x)) =
                   Cardinality(FreeOf(s \ {x})) + Cardinality(Free(x))
                     - Cardinality(FreeOf(s \ {x}) \cap Free(x))
          BY <3>5, <4>1, <4>2, Zenon
        <4>4. /\ Cardinality(FreeOf(s \ {x}) \cap Free(x)) = 0
              /\ IsFiniteSet(FreeOf(s))
              /\ Cardinality(FreeOf(s)) = Cardinality(FreeOf(s \ {x}) \cup Free(x))
          BY <3>6, <3>7, <4>1, <4>3, Zenon
        <4> QED
          BY <4>1, <4>3, <4>4
      <3> QED
        BY <2>2, <3>3, <3>4, <3>5, <3>8
    <2> QED
      BY <2>3, <2>4
  <1>6. Good(M)
    <2>1. Cardinality(M) \in Nat
      BY <1>2, FS_CardinalityType
    <2> QED
      BY <1>5, <2>1
  <1>7. remaining(S, type) = g[M] - h[M]
    BY <1>1, <1>3, <1>4 DEF remaining
  <1>8. Cardinality(FreeOf(M)) \in Nat
    BY <1>6, FS_CardinalityType
  <1> QED
    BY <1>1, <1>6, <1>7, <1>8

\* A configuration of any age: finitely many disjoint ranges, all of them still
\* loaded, with no folio fewer used.
SeenInv ==
  /\ IsFiniteSet(cafs) /\ IsFiniteSet(seen) /\ seen \subseteq Caf
  /\ Disjoint(seen)
  /\ \A c \in seen : Kept(c, cafs)

LEMMA InitSeen == StatusInit => IInv /\ SeenInv
  BY InitIInv, FS_EmptySet DEF StatusInit, Init, SeenInv, Disjoint

\* A commit adds at most one range, and keeps the ones that were read.
LEMMA NextSeen == IInv /\ SeenInv /\ [StatusNext]_statusVars => IInv' /\ SeenInv'
  <1> SUFFICES ASSUME IInv, SeenInv, [StatusNext]_statusVars PROVE IInv' /\ SeenInv'
    OBVIOUS
  <1>1. CASE [Next]_vars /\ seen' = seen
    <2>1. IInv'
      BY <1>1, NextIInv
    <2>2. IsFiniteSet(cafs')
      <3>1. CASE cafs' = cafs
        BY <3>1 DEF SeenInv
      <3>2. ASSUME NEW t \in Txns, Create(t) PROVE IsFiniteSet(cafs')
        <4>1. PICK d \in cafs : cafs' = (cafs \ {d}) \cup {Advanced(d)}
          BY <3>2 DEF Create, IInv, ViewInv
        <4>2. IsFiniteSet(cafs \ {d})
          BY FS_RemoveElement DEF SeenInv
        <4> QED
          BY <4>1, <4>2, FS_AddElement
      <3>3. ASSUME NEW t \in Txns, NEW f \in CafFiles, Upload(t, f) PROVE IsFiniteSet(cafs')
        <4>1. PICK last \in Nat :
                cafs' = {e \in cafs : ~Overlaps(e, f)} \cup {Stored(f, last, loads)}
          BY <3>3, UploadReplaces
        <4>2. IsFiniteSet({e \in cafs : ~Overlaps(e, f)})
          BY FS_Subset DEF SeenInv
        <4> QED
          BY <4>1, <4>2, FS_AddElement
      <3> QED
        BY <1>1, <3>1, <3>2, <3>3 DEF Next, vars, Begin, Reserve, Rollback
    <2>3. ASSUME NEW c \in seen PROVE Kept(c, cafs')
      <3>1. PICK d \in cafs : d.type = c.type /\ SameRange(d, c) /\ d.lastUsed >= c.lastUsed
        BY DEF SeenInv, Kept
      <3>2. PICK e \in cafs' : e.type = d.type /\ SameRange(e, d) /\ e.lastUsed >= d.lastUsed
        BY <1>1, RangesStay DEF Kept
      <3>3. c.lastUsed \in Nat /\ d.lastUsed \in Nat /\ e.lastUsed \in Nat
        BY <2>1 DEF SeenInv, IInv, TypeOK, Caf
      <3> QED
        BY <3>1, <3>2, <3>3 DEF Kept, SameRange
    <2> QED
      BY <1>1, <2>1, <2>2, <2>3 DEF SeenInv
  <1>2. CASE ReadConfig
    <2>1. cafs' = cafs /\ seen' = cafs /\ IInv'
      BY <1>2, NextIInv DEF ReadConfig, vars
    <2>2. cafs \subseteq Caf /\ Disjoint(cafs)
      BY DEF IInv, TypeOK, CafsInv
    <2>3. \A c \in cafs : Kept(c, cafs)
      BY <2>2 DEF Kept, SameRange, Caf
    <2> QED
      BY <2>1, <2>2, <2>3 DEF SeenInv
  <1> QED
    BY <1>1, <1>2 DEF StatusNext, statusVars

\* What can still be reserved are the free folios of the committed ranges.
LEMMA AvailableIsFree ==
  ASSUME IInv, NEW type
  PROVE  FreeOf(matchingCafs(cafs, type)) = Available(type)
  <1>1. ASSUME NEW c \in cafs PROVE Free(c) = (c.lastUsed + 1)..c.rangeTo
    <2>1. /\ c \in Caf /\ c.rangeFrom \in Nat /\ c.rangeTo \in Nat /\ c.lastUsed \in Nat
          /\ 0 < c.rangeFrom /\ c.rangeFrom - 1 <= c.lastUsed /\ c.lastUsed <= c.rangeTo
          /\ cafs \subseteq Caf /\ c.type \in Types
      BY DEF IInv, TypeOK, Caf, CafsInv
    <2>2. ASSUME NEW n \in Folios(c), <<c.type, n>> \in dtes PROVE n <= c.lastUsed
      <3>1. n \in Nat /\ c.rangeFrom <= n /\ n <= c.rangeTo
        BY <2>1 DEF Folios
      <3>2. PICK e \in cafs, m \in Nat : /\ <<c.type, n>> = <<e.type, m>>
                                         /\ e.rangeFrom <= m /\ m <= e.lastUsed
        BY <2>1, <2>2, ConsumedElement DEF IInv, FoliosAccounted
      <3>3. e.type = c.type /\ m = n /\ e \in Caf /\ e.lastUsed <= e.rangeTo
        BY <2>1, <3>2 DEF IInv, CafsInv
      <3>4. Overlaps(c, e)
        BY <2>1, <3>1, <3>2, <3>3 DEF Overlaps, Caf
      <3> QED
        BY <3>2, <3>3, <3>4 DEF IInv, CafsInv, Disjoint
    <2>3. ASSUME NEW n \in Folios(c), n <= c.lastUsed PROVE <<c.type, n>> \in dtes
      <3>1. n \in Nat /\ c.rangeFrom <= n
        BY <2>1 DEF Folios
      <3> QED
        BY <2>1, <2>3, <3>1, ConsumedElement DEF IInv, FoliosAccounted
    <2> QED
      BY <2>1, <2>2, <2>3 DEF Free, Folios, OnDocuments
  <1>2. ASSUME NEW c \in cafs, NEW n \in Free(c) PROVE c.lastUsed < c.rangeTo
    BY <1>1, <1>2 DEF IInv, TypeOK, Caf
  <1> QED
    BY <1>1, <1>2 DEF FreeOf, Available, Open, matchingCafs

\* What getFolioStatus and getFolioTraceability show from a configuration of any
\* age never overstates the stock, and traces a document to one CAF.
LEMMA SeenStockHolds ==
  ASSUME IInv, SeenInv
  PROVE  StockReportsHold
  <1>1. /\ cafs \subseteq Caf /\ seen \subseteq Caf /\ dtes \subseteq Types \X Nat
        /\ Disjoint(cafs) /\ Disjoint(seen) /\ IsFiniteSet(cafs) /\ IsFiniteSet(seen)
        /\ \A c \in cafs : c.rangeFrom <= c.rangeTo /\ c.lastUsed <= c.rangeTo
    BY DEF IInv, TypeOK, CafsInv, SeenInv
  <1>2. \A c \in seen : \E e \in cafs : e.type = c.type /\ SameRange(e, c)
    BY DEF SeenInv, Kept
  <1>3. \A c \in seen : c.rangeFrom <= c.rangeTo
    BY <1>1, <1>2 DEF SameRange
  <1>4. ASSUME NEW type \in Types
        PROVE  /\ IsFiniteSet(Available(type))
               /\ remaining(cafs, type) = Cardinality(Available(type))
               /\ remaining(seen, type) <= Cardinality(Available(type))
               /\ remaining(seen, type) \in Int
    <2>1. /\ IsFiniteSet(FreeOf(matchingCafs(cafs, type)))
          /\ remaining(cafs, type) = Cardinality(FreeOf(matchingCafs(cafs, type)))
      BY <1>1, RemainingIsFree
    <2>2. /\ IsFiniteSet(FreeOf(matchingCafs(seen, type)))
          /\ remaining(seen, type) = Cardinality(FreeOf(matchingCafs(seen, type)))
      BY <1>1, <1>3, RemainingIsFree
    <2>3. FreeOf(matchingCafs(seen, type)) \in SUBSET FreeOf(matchingCafs(cafs, type))
      BY <1>2 DEF FreeOf, Free, Folios, matchingCafs, SameRange
    <2>4. FreeOf(matchingCafs(cafs, type)) = Available(type)
      BY AvailableIsFree
    <2>5. /\ Cardinality(FreeOf(matchingCafs(seen, type)))
               <= Cardinality(FreeOf(matchingCafs(cafs, type)))
          /\ Cardinality(FreeOf(matchingCafs(seen, type))) \in Nat
      BY <2>1, <2>2, <2>3, FS_Subset, FS_CardinalityType
    <2> QED
      BY <2>1, <2>2, <2>4, <2>5
  <1>5. StockNeverOverstated
    BY <1>4 DEF StockNeverOverstated
  <1>6. AlertBeforeExhausted
    <2> SUFFICES ASSUME NEW type \in Types, alert(seen, type) # "CRITICO"
                 PROVE  Open(cafs, type) # {}
      BY DEF AlertBeforeExhausted
    <2>1. remaining(seen, type) > 0
      BY <1>4 DEF alert
    <2>2. Available(type) # {}
      BY <1>4, <2>1, FS_EmptySet
    <2> QED
      BY <2>2 DEF Available
  <1>7. TracedToOneCaf
    <2> SUFFICES ASSUME NEW d \in dtes
                 PROVE  /\ Cardinality(cafOf(cafs, d)) = 1
                        /\ \A c \in cafOf(seen, d) : \E e \in cafOf(cafs, d) : SameRange(c, e)
      BY DEF TracedToOneCaf
    <2>1. PICK c \in cafs, n \in Nat : d = <<c.type, n>> /\ c.rangeFrom <= n /\ n <= c.lastUsed
      BY <1>1, ConsumedElement DEF IInv, FoliosAccounted
    <2>2. c \in cafOf(cafs, d)
      BY <1>1, <2>1 DEF cafOf, Caf
    <2>3. ASSUME NEW e \in cafOf(cafs, d) PROVE e = c
      <3>1. Overlaps(c, e)
        BY <1>1, <2>1, <2>2 DEF cafOf, Overlaps, Caf
      <3> QED
        BY <1>1, <3>1 DEF Disjoint, cafOf
    <2>4. cafOf(cafs, d) = {c}
      BY <2>2, <2>3
    <2>5. Cardinality(cafOf(cafs, d)) = 1
      BY <2>4, FS_Singleton
    <2>6. \A e \in cafOf(seen, d) : \E b \in cafOf(cafs, d) : SameRange(e, b)
      BY <1>2 DEF cafOf, SameRange
    <2> QED
      BY <2>5, <2>6
  <1> QED
    BY <1>5, <1>6, <1>7 DEF StockReportsHold

\* However old the configuration a stock report was made from, while others
\* reserve and upload: no folio is promised that cannot be given, the alert comes
\* before the last one, and every document is traced to its CAF.
THEOREM StockIsTrue == StatusSpec => []StockReportsHold
  BY InitSeen, NextSeen, SeenStockHolds, PTL DEF StatusSpec
===============================================================================
