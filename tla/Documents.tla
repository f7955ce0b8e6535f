------------------------------ MODULE Documents ------------------------------
(***************************************************************************)
(* The money of a document, from the payload an integrator posts to the    *)
(* signed XML, the envelope the SII receives, the PDF and the daily folio  *)
(* report. A batch of payloads is posted one after the other; each is      *)
(* validated and priced, built, stored and sent.                           *)
(*                                                                         *)
(* Code: integration-request.service.ts (validatePayloadAndTotals),        *)
(* framework/sii/discount.engine.ts, dte-xml.engine.ts,                    *)
(* sii-xsd.validator.ts, dte-print.model.ts, pdf.generator.ts and          *)
(* generate-rcof.use-case.ts (consolidateDay). XML is a record with one    *)
(* field per tag that carries an amount or decides how one is read.        *)
(*                                                                         *)
(* Amounts are pesos and percentages are whole: on them the code's double  *)
(* arithmetic and Math.round agree with exact rounding, halves up.         *)
(* Quantities, which may be decimal, count the 1/QtyUnit parts of a unit.  *)
(***************************************************************************)
EXTENDS Integers, Sequences, FiniteSets, FiniteSetsExt, SequencesExt

CONSTANTS
  Batches,      \* sets of payloads an integrator may post, each one once
  QtyUnit,      \* parts of a unit a quantity is counted in
  MaxFolio,     \* folios of the CAF loaded for each type
  MaxDay,       \* days of a behaviour
  Absent        \* a field that is not sent, a tag that is not written

ASSUME QtyUnitAssumption == QtyUnit \in Nat \ {0}
ASSUME MaxFolioAssumption == MaxFolio \in Nat /\ MaxDay \in Nat \ {0}
ASSUME AbsentAssumption == Absent \notin Int

\* What the types of the DTOs let through, before any of their rules.
Line == [quantity: Int, price: Int, exempt: BOOLEAN,
         percentage: Int \cup {Absent}, discount: Int \cup {Absent}]
Rut == [body: Seq(0..9), dv: 0..10]
Payload == [type: Int, receiver: Rut \cup {Absent}, items: Seq(Line),
            references: BOOLEAN, transport: BOOLEAN,
            pricingMode: {"NET", "GROSS", Absent},
            globalDiscount: Int \cup {Absent}, retentions: Seq(Int),
            declared: [{"net", "exempt", "iva", "total"} -> Int \cup {Absent}]]

ASSUME BatchesAssumption == Batches \subseteq SUBSET Payload

VARIABLES
  pending,      \* payloads of the batch not posted yet
  canIssueT46,  \* the tenant's authorisation for purchase invoices
  today,        \* the date in Santiago
  work,         \* the request in progress or the last one
  docs          \* dte_documents: the document, its status and its request

vars == <<pending, canIssueT46, today, work, docs>>

supported == {33, 34, 39, 41, 46, 52, 56, 61}
Notes == {56, 61}
isBoleta(type) == type \in {39, 41}
isExemptType(type) == type \in {34, 41}
requiresSpecialAuth(type) == type = 46

Given(x) == x # Absent
Or0(x) == IF x = Absent THEN 0 ELSE x
SumOf(seq, f(_)) == MapThenSumSet(LAMBDA k : f(seq[k]), DOMAIN seq)

\* Math.round(n / d).
round(n, d) == (2 * n + d) \div (2 * d)

\* Modulo 11 with weights 2..7 from the right; 10 is written K and 11 is 0.
checkDigit(body) ==
  LET n == Len(body)
      sum == MapThenSumSet(LAMBDA i : body[n + 1 - i] * (2 + ((i - 1) % 6)), 1..n)
  IN (11 - (sum % 11)) % 11

\* A RUT is its digits and its check digit, 8 or 9 characters in all.
validateRut(rut) ==
  /\ Len(rut.body) + 1 \in 8..9
  /\ rut.dv = checkDigit(rut.body)
-----------------------------------------------------------------------------
\* The discount engine.

grossAmount(item) == round(item.quantity * item.price, QtyUnit)

\* applyItemDiscount throws.
DiscountThrows(item) ==
  \/ Or0(item.percentage) # 0 /\ Or0(item.discount) # 0
  \/ Or0(item.percentage) \notin 0..100
  \/ Or0(item.discount) > grossAmount(item)

\* applyItemDiscount: at most one of the two discounts is not zero.
discountAmount(item) ==
  IF Or0(item.percentage) # 0 THEN round(grossAmount(item) * item.percentage, 100)
  ELSE Or0(item.discount)
netAmount(item) == grossAmount(item) - discountAmount(item)

\* Mutant: the net of a gross price is rounded down.
netLineFloor(amount) == (100 * amount) \div 119
netLine(amount) == round(100 * amount, 119)

applyGlobalDiscount(net, percentage) == round(net * percentage, 100)

calculateVat(net) == round(19 * net, 100)

\* calculateTotals: line discounts, net and exempt sums, the global discount on
\* the net only, VAT on what is left. A mode that is not sent is NET.
engineTotals(p) ==
  LET exempt(i) == isExemptType(p.type) \/ i.exempt
      lineNet(i) == IF exempt(i) THEN 0
                    ELSE IF p.pricingMode = "GROSS" THEN netLine(netAmount(i))
                    ELSE netAmount(i)
      lineExempt(i) == IF exempt(i) THEN netAmount(i) ELSE 0
      before == SumOf(p.items, lineNet)
      off == IF before > 0 THEN applyGlobalDiscount(before, Or0(p.globalDiscount))
             ELSE 0
      net == before - off
      exe == SumOf(p.items, lineExempt)
      iva == calculateVat(net)
  IN [net |-> net, exempt |-> exe, iva |-> iva,
      total |-> net + exe + iva, off |-> off]

retained(p) == SumOf(p.retentions, LAMBDA amount : amount)

\* Mutant: the totals answered leave the retentions out.
serverTotalsGross(p) == engineTotals(p)

\* DteXmlEngine.calculateTotals: what the integrator is answered.
serverTotals(p) ==
  LET t == engineTotals(p)
  IN IF retained(p) > 0 THEN [t EXCEPT !.total = @ - retained(p)] ELSE t
-----------------------------------------------------------------------------
\* Intake.

\* The DTOs' rules on the fields the model keeps.
IntegrationReceiverDto(rut) == validateRut(rut)
IntegrationItemDto(item) ==
  /\ item.quantity > 0 /\ item.price >= 0
  /\ Or0(item.percentage) \in 0..100 /\ Or0(item.discount) >= 0
CreateIntegrationDteDto(p) ==
  /\ p.type \in supported
  /\ Given(p.receiver) => IntegrationReceiverDto(p.receiver)
  /\ Or0(p.globalDiscount) \in 0..100
  /\ \A k \in DOMAIN p.items : IntegrationItemDto(p.items[k])
CreateIntegrationNoteDto(p) == \A k \in DOMAIN p.items : IntegrationItemDto(p.items[k])

needsReceiver == {33, 34, 46, 52}

\* Declared totals may differ from the server's by one peso each.
Agrees(declared, t) ==
  \A f \in DOMAIN declared : Given(declared[f]) => declared[f] - t[f] \in -1..1

\* Mutant: the lines are not required.
validEmpty(p, notes) ==
  /\ p.type \in Notes => notes /\ p.references
  /\ \A k \in DOMAIN p.items :
       ~(Given(p.items[k].percentage) /\ Given(p.items[k].discount))
  /\ p.type \in needsReceiver => Given(p.receiver)
  /\ isExemptType(p.type) => \A k \in DOMAIN p.items : p.items[k].exempt
  /\ p.type = 39 => \A k \in DOMAIN p.items : ~p.items[k].exempt
  /\ p.type = 52 => p.transport
  /\ \A k \in DOMAIN p.items : ~DiscountThrows(p.items[k])
  /\ Agrees(p.declared, serverTotals(p))

\* validatePayloadAndTotals: notes only on their own endpoints and with a
\* reference, lines with one kind of discount, a receiver where the type asks for
\* one, exempt lines by type, transport for type 52, and the declared totals.
validatePayloadAndTotals(p, notes) ==
  /\ p.type \in Notes => notes /\ p.references
  /\ Len(p.items) > 0
  /\ \A k \in DOMAIN p.items :
       ~(Given(p.items[k].percentage) /\ Given(p.items[k].discount))
  /\ p.type \in needsReceiver => Given(p.receiver)
  /\ isExemptType(p.type) => \A k \in DOMAIN p.items : p.items[k].exempt
  /\ p.type = 39 => \A k \in DOMAIN p.items : ~p.items[k].exempt
  /\ p.type = 52 => p.transport
  /\ \A k \in DOMAIN p.items : ~DiscountThrows(p.items[k])
  /\ Agrees(p.declared, serverTotals(p))

NoWork == [stage |-> "none"]
Busy == work.stage \in {"accepted", "stored"}

Init ==
  /\ pending \in Batches
  /\ canIssueT46 \in BOOLEAN
  /\ today = 1
  /\ work = NoWork
  /\ docs = {}

Answer(p, ok) ==
  work' = IF ok THEN [stage |-> "accepted", payload |-> p, totals |-> serverTotals(p)]
          ELSE [stage |-> "refused", payload |-> p]

\* POST /dtes.
emit(p) ==
  /\ ~Busy
  /\ Answer(p, CreateIntegrationDteDto(p) /\ validatePayloadAndTotals(p, FALSE))
  /\ pending' = pending \ {p}
  /\ UNCHANGED <<canIssueT46, today, docs>>

\* POST /dtes/:dteId/credit-notes and debit-notes: receiver and reference come
\* from the original, which must be one of the tenant's documents, and lines and
\* declared totals from the call.
emitNote(p, original) ==
  LET note == [p EXCEPT !.receiver = original.payload.receiver, !.references = TRUE,
                        !.transport = FALSE, !.pricingMode = Absent,
                        !.globalDiscount = Absent, !.retentions = <<>>]
  IN
  /\ ~Busy
  /\ p.type \in Notes
  /\ Answer(note, CreateIntegrationNoteDto(p) /\ validatePayloadAndTotals(note, TRUE))
  /\ pending' = pending \ {p}
  /\ UNCHANGED <<canIssueT46, today, docs>>
-----------------------------------------------------------------------------
\* The document.

\* buildDetail: MontoItem after its discount, and the discount if it took
\* anything: DescuentoPct or DescuentoMonto.
buildDetail(item) ==
  [exempt |-> item.exempt, amount |-> netAmount(item),
   pct |-> IF discountAmount(item) > 0 /\ Or0(item.percentage) # 0
           THEN item.percentage ELSE Absent,
   off |-> IF discountAmount(item) > 0 /\ Or0(item.percentage) = 0
           THEN discountAmount(item) ELSE Absent]

\* The total written in MntTotal and in the TED: retentions come off whatever
\* their sign.
computedTotal(p) == engineTotals(p).total - retained(p)

DscRcgGlobal(p) ==
  IF engineTotals(p).off > 0 /\ Or0(p.globalDiscount) > 0
  THEN p.globalDiscount ELSE Absent

\* Totales: net and VAT only when there is a net, exempt only when not zero.
Totales(p) ==
  LET t == engineTotals(p)
      when(c, x) == IF c THEN x ELSE Absent
  IN [net |-> when(t.net > 0, t.net), iva |-> when(t.net > 0, t.iva),
      exempt |-> when(t.exempt > 0, t.exempt),
      retentions |-> p.retentions, total |-> computedTotal(p)]

\* IndMntNeto marks a boleta whose prices do not include VAT.
IndMntNeto(p) == p.pricingMode = "NET" /\ isBoleta(p.type)

\* The receiver written in the XML and the TED; a boleta without one names the
\* final consumer.
BOLETA_GENERIC_RECEIVER == [body |-> <<6, 6, 6, 6, 6, 6, 6, 6>>, dv |-> 6]
RUTRecep(p) == IF ~Given(p.receiver) /\ isBoleta(p.type)
               THEN BOLETA_GENERIC_RECEIVER ELSE p.receiver

buildTed(p, folio) == [type |-> p.type, folio |-> folio, receiver |-> RUTRecep(p),
                       amount |-> computedTotal(p)]

buildDte(p, folio) ==
  [type |-> p.type, folio |-> folio, date |-> today, receiver |-> RUTRecep(p),
   items |-> [k \in DOMAIN p.items |-> buildDetail(p.items[k])],
   totals |-> Totales(p), global |-> DscRcgGlobal(p),
   netPrices |-> IndMntNeto(p), ted |-> buildTed(p, folio)]

Stored(type) == {d.doc.folio : d \in {e \in docs : e.doc.type = type}}

\* dte_documents.receiver_rut NOT NULL takes the payload's receiver, not the one
\* written in the XML.
NotNull(p) == Given(p.receiver)

\* prepare: the gate for purchase invoices, then folio, XML and row in one
\* transaction. Folios come from FolioReservation; which of them reach this day
\* is left open, so the day's folios have gaps.
prepare ==
  LET p == work.payload
      gate == requiresSpecialAuth(p.type) /\ ~canIssueT46
  IN
  /\ work.stage = "accepted"
  /\ \/ /\ gate
        /\ work' = [work EXCEPT !.stage = "unauthorised"]
        /\ UNCHANGED docs
     \/ /\ ~gate /\ ~NotNull(p)
        /\ work' = [work EXCEPT !.stage = "unstored"]
        /\ UNCHANGED docs
     \/ /\ ~gate /\ NotNull(p)
        /\ \E folio \in (1..MaxFolio) \ Stored(p.type) :
             LET doc == buildDte(p, folio) IN
             /\ docs' = docs \cup {[doc |-> doc, status |-> "FIRMADO",
                                    payload |-> p, answered |-> work.totals]}
             /\ work' = [stage |-> "stored", payload |-> p, doc |-> doc]
  /\ UNCHANGED <<pending, canIssueT46, today>>

\* A tag of digits only: a negative amount is not read.
numberTag(x) == IF Given(x) /\ x >= 0 THEN x ELSE Absent

\* Mutant: the preflight forgets the exempt amount.
rulesNoExempt(doc) ==
  /\ Given(numberTag(doc.totals.total))
  /\ Or0(numberTag(doc.totals.net)) + Or0(numberTag(doc.totals.iva)) = doc.totals.total

\* The rules on each document of an EnvioDTE: net + exempt + VAT is the total.
validateSurgicalRules(doc) ==
  /\ Given(numberTag(doc.totals.total))
  /\ Or0(numberTag(doc.totals.net)) + Or0(numberTag(doc.totals.exempt))
       + Or0(numberTag(doc.totals.iva)) = doc.totals.total

\* On each document of an EnvioBOLETA: only that there is a total.
validateBoletaSurgicalRules(doc) == Given(numberTag(doc.totals.total))

buildEnvioDte(doc) == [root |-> "EnvioDTE", dtes |-> {doc}]
buildEnvioBoleta(doc) == [root |-> "EnvioBOLETA", dtes |-> {doc}]
envelope(doc) == IF isBoleta(doc.type) THEN buildEnvioBoleta(doc) ELSE buildEnvioDte(doc)

\* uploadRealDte tells the envelopes apart by their root, and checks them before
\* it posts them.
preflight(envio) ==
  \A doc \in envio.dtes : IF envio.root = "EnvioBOLETA" THEN validateBoletaSurgicalRules(doc)
                                                       ELSE validateSurgicalRules(doc)

\* transmit: the document in an envelope of its own, refused by the preflight or
\* taken by the SII.
transmit ==
  /\ work.stage = "stored"
  /\ \/ /\ preflight(envelope(work.doc))
        /\ work' = [work EXCEPT !.stage = "sent"]
        /\ docs' = {IF d.doc = work.doc THEN [d EXCEPT !.status = "ENVIADO"] ELSE d :
                      d \in docs}
     \/ /\ ~preflight(envelope(work.doc))
        /\ work' = [work EXCEPT !.stage = "unsent"]
        /\ UNCHANGED docs
  /\ UNCHANGED <<pending, canIssueT46, today>>

\* A document is annulled; no route of the service does it.
annul(d) ==
  /\ ~Busy
  /\ d.status = "ENVIADO" /\ isBoleta(d.doc.type)
  /\ docs' = (docs \ {d}) \cup {[d EXCEPT !.status = "ANULADO"]}
  /\ UNCHANGED <<pending, canIssueT46, today, work>>

\* Midnight in Santiago.
NextDay ==
  /\ today < MaxDay /\ ~Busy /\ pending # {} /\ docs # {}
  /\ today' = today + 1
  /\ UNCHANGED <<pending, canIssueT46, work, docs>>

Next ==
  \/ \E p \in pending : emit(p)
  \/ \E p \in pending : \E d \in docs : emitNote(p, d)
  \/ prepare
  \/ transmit
  \/ \E d \in docs : annul(d)
  \/ NextDay

Spec == Init /\ [][Next]_vars
-----------------------------------------------------------------------------
\* What is read back from a stored document.

\* buildDtePrintModel reads amounts from the tags, and a tag that is missing as
\* nothing; it throws without lines or without a receiver.
Printable(doc) == Len(doc.items) > 0 /\ Given(doc.receiver)
buildDtePrintModel(doc) ==
  [items |-> [k \in DOMAIN doc.items |->
                [amount |-> doc.items[k].amount, exempt |-> doc.items[k].exempt]],
   net |-> doc.totals.net, exempt |-> doc.totals.exempt, iva |-> doc.totals.iva,
   global |-> doc.global, retentions |-> doc.totals.retentions,
   total |-> doc.totals.total]

\* consolidateDay: the boletas of a type issued on the day, annulled or not.
boletas(type, day) == {d \in docs : d.doc.type = type /\ d.doc.date = day}

\* Mutant: the last run of folios is not closed.
folioRangesOpen(folios) ==
  FoldLeft(LAMBDA acc, f :
             IF acc.start = 0 THEN [acc EXCEPT !.start = f, !.prev = f]
             ELSE IF f # acc.prev + 1
               THEN [ranges |-> Append(acc.ranges, <<acc.start, acc.prev>>),
                     start |-> f, prev |-> f]
             ELSE [acc EXCEPT !.prev = f],
           [ranges |-> <<>>, start |-> 0, prev |-> 0], folios).ranges

\* folioRanges: runs of consecutive folios, in one pass over the sorted list.
folioRanges(folios) ==
  LET last == FoldLeft(LAMBDA acc, f :
                IF acc.start = 0 THEN [acc EXCEPT !.start = f, !.prev = f]
                ELSE IF f # acc.prev + 1
                  THEN [ranges |-> Append(acc.ranges, <<acc.start, acc.prev>>),
                        start |-> f, prev |-> f]
                ELSE [acc EXCEPT !.prev = f],
              [ranges |-> <<>>, start |-> 0, prev |-> 0], folios)
  IN IF last.start = 0 THEN last.ranges
     ELSE Append(last.ranges, <<last.start, last.prev>>)

\* The folios a summary lists as used: the annulled ones are not.
activeFolios(type, day) ==
  {d.doc.folio : d \in {e \in boletas(type, day) : e.status # "ANULADO"}}

\* Array.sort of folios: the same ones from the smallest to the largest.
ascending(S) ==
  CHOOSE s \in [1..Cardinality(S) -> S] :
    \A i, j \in DOMAIN s : i < j => s[i] < s[j]

\* A tag that is missing counts as nothing.
xmlAmount(x) == Or0(x)

\* One Resumen of the report: amounts as they are read from the XML.
Resumen(type, day) ==
  LET B == boletas(type, day)
      sum(f(_)) == MapThenSumSet(LAMBDA d : xmlAmount(f(d.doc.totals)), B)
      active == activeFolios(type, day)
  IN [net |-> sum(LAMBDA t : t.net), iva |-> sum(LAMBDA t : t.iva),
      exempt |-> sum(LAMBDA t : t.exempt), total |-> sum(LAMBDA t : t.total),
      foliosEmitidos |-> Cardinality(B),
      foliosAnulados |-> Cardinality({d \in B : d.status = "ANULADO"}),
      foliosUtilizados |-> Cardinality(active),
      ranges |-> folioRanges(ascending(active))]

\* A type without boletas has no Resumen.
consolidateDay(day) ==
  [type \in {t \in {39, 41} : boletas(t, day) # {}} |-> Resumen(type, day)]

buildRcof(day) == [FchInicio |-> day, FchFinal |-> day, Resumen |-> consolidateDay(day)]
-----------------------------------------------------------------------------
\* Types of the posted, stored and read-back documents.
TypeOK ==
  /\ \A p \in pending : Len(p.items) \in Nat
  /\ canIssueT46 \in BOOLEAN
  /\ today \in 1..MaxDay
  /\ work.stage \in {"none", "refused", "accepted", "unauthorised", "unstored",
                     "stored", "unsent", "sent"}
  /\ \A d \in docs : /\ d.doc.type \in supported /\ d.doc.folio \in 1..MaxFolio
                     /\ d.doc.date \in 1..today
                     /\ d.status \in {"FIRMADO", "ENVIADO", "ANULADO"}
                     /\ \A k \in DOMAIN d.doc.items : d.doc.items[k].amount \in Nat
                     /\ d.doc.totals.total \in Int
                     /\ d.doc.totals.net \in Nat \cup {Absent}
                     /\ d.doc.totals.exempt \in Nat \cup {Absent}

\* The amount the integrator is answered with the 202 (calculateTotals) is the
\* one that buildDte signs later, in MntTotal and in the TED, and no declared
\* total is further than one peso from it. Only a negative retention, which the
\* DTO does not refuse, makes the two calculations differ.
AnsweredIsSigned ==
  \A d \in docs : retained(d.payload) >= 0 =>
    /\ d.answered.total = d.doc.totals.total
    /\ d.doc.ted.amount = d.doc.totals.total
    /\ Given(d.payload.declared.total) =>
         d.payload.declared.total - d.doc.totals.total \in -1..1

\* What the PDF prints explains its total: from the printed lines, the printed
\* global discount and retentions, a reader gets MntTotal again, to the peso,
\* when prices are net.
LinesExplainTotal ==
  \A d \in docs : d.payload.pricingMode # "GROSS" =>
    LET m == buildDtePrintModel(d.doc)
        affected == SumOf(m.items, LAMBDA i : IF i.exempt THEN 0 ELSE i.amount)
        exempt == SumOf(m.items, LAMBDA i : IF i.exempt THEN i.amount ELSE 0)
        after == affected - ((2 * affected * Or0(m.global) + 100) \div 200)
        vat == (38 * after + 100) \div 200
    IN m.total = after + exempt + vat - SumOf(m.retentions, LAMBDA r : r)

\* Prices with VAT included: each line is split into net and VAT and rounded, so
\* the total of a document may differ from the prices it was sold at, by no more
\* than 0.595 pesos a line and half a peso.
GrossStaysClose ==
  \A d \in docs :
    /\ d.payload.pricingMode = "GROSS"
    /\ Or0(d.payload.globalDiscount) = 0 /\ d.payload.retentions = <<>>
    => LET sold == SumOf(d.doc.items, LAMBDA i : i.amount)
           bound == (595 * Len(d.doc.items) + 500) \div 1000
       IN d.doc.totals.total - sold \in -bound..bound

\* The preflight before the upload stops a document the service itself built and
\* gave a folio to only because of its retentions: net, exempt and VAT of every
\* other one add up, whatever its discounts and the tags left out.
PreflightStopsRetainedOnly ==
  work.stage = "unsent" => retained(work.payload) # 0

\* An accepted payload is always stored with its folio, but for a boleta without
\* receiver, which the intake takes and the NOT NULL column never does.
UnstoredIsAnonymous ==
  work.stage = "unstored" => isBoleta(work.payload.type) /\ ~Given(work.payload.receiver)

\* A stored document can be printed: what the intake accepts never leaves the
\* XML without the lines or the receiver that buildDtePrintModel insists on.
StoredIsPrintable == \A d \in docs : Printable(d.doc)

\* The ranges reported for a day are exactly the maximal runs of its folios in
\* use, in order: none is missed, repeated, split or reported twice, whatever was
\* annulled or issued on another day.
RangesAreRuns ==
  \A day \in 1..MaxDay : \A type \in DOMAIN buildRcof(day).Resumen :
    LET used == activeFolios(type, day)
        ranges == buildRcof(day).Resumen[type].ranges
    IN /\ \A i \in DOMAIN ranges :
            /\ ranges[i][1]..ranges[i][2] \subseteq used /\ ranges[i][1] <= ranges[i][2]
            /\ ranges[i][1] - 1 \notin used /\ ranges[i][2] + 1 \notin used
            /\ i > 1 => ranges[i - 1][2] < ranges[i][1]
       /\ used = UNION {ranges[i][1]..ranges[i][2] : i \in DOMAIN ranges}

\* The report of a day accounts for every boleta issued on it, once: emitted
\* folios are the used and the annulled ones, and over all days the reported
\* amounts are the amounts signed.
ReportCoversDays ==
  \A type \in {39, 41} :
    LET day(n) == buildRcof(n).Resumen[type]
        days == {n \in 1..MaxDay : type \in DOMAIN buildRcof(n).Resumen}
        signed == {d \in docs : d.doc.type = type}
    IN /\ \A n \in days :
            day(n).foliosEmitidos = day(n).foliosUtilizados + day(n).foliosAnulados
       /\ MapThenSumSet(LAMBDA n : day(n).total, days)
            = MapThenSumSet(LAMBDA d : d.doc.ted.amount, signed)

\* One document, one total: the 202's, the signed one and the one its printed
\* lines add up to.
TotalsAgree == AnsweredIsSigned /\ LinesExplainTotal

\* What the intake accepts is refused later in two cases only: retentions before
\* the upload, and a receiver that is missing before the insert.
LateRefusals == PreflightStopsRetainedOnly /\ UnstoredIsAnonymous

\* The RCOF of a day states its boletas, each once, in ranges without gaps.
ReportIsExact == RangesAreRuns /\ ReportCoversDays
=============================================================================
