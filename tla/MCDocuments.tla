----------------------------- MODULE MCDocuments -----------------------------
(* Batches of payloads for TLC. Rich batches hold one payload and vary what    *)
(* decides its amounts; day batches hold several boletas or a note.            *)
EXTENDS Documents

MCLine(q, price, exempt, pct, off) ==
  [quantity |-> q, price |-> price, exempt |-> exempt, percentage |-> pct,
   discount |-> off]
Plain(price) == MCLine(QtyUnit, price, FALSE, Absent, Absent)

MCRut == [body |-> <<7, 6, 1, 2, 3, 4, 5, 6>>, dv |-> 0]
Ruts == {[body |-> <<a, 6, b, 2, 3, 4, 5, c>>, dv |-> dv] :
           a \in {0, 7}, b \in {1, 2, 9}, c \in {0, 5, 6}, dv \in 0..10}

Nothing == [net |-> Absent, exempt |-> Absent, iva |-> Absent, total |-> Absent]
MCPayload == [type |-> 33, receiver |-> MCRut, items |-> <<Plain(100)>>,
              references |-> FALSE, transport |-> TRUE, pricingMode |-> Absent,
              globalDiscount |-> Absent, retentions |-> <<>>, declared |-> Nothing]
With(items) == [MCPayload EXCEPT !.items = items]

\* One line: quantities, prices, both kinds of discount, exempt or not.
Lines == {MCLine(q, p, e, d[1], d[2]) :
            q \in {1, 2, 3}, p \in {0, 1, 33, 50, 101}, e \in BOOLEAN,
            d \in {<<Absent, Absent>>, <<0, 40>>, <<Absent, 40>>, <<Absent, 1>>,
                   <<1, Absent>>, <<50, Absent>>, <<100, Absent>>, <<0, Absent>>}}
OneLine == {[With(<<l>>) EXCEPT !.type = t, !.globalDiscount = g] :
              l \in Lines, t \in {33, 34, 39}, g \in {Absent, 0, 1, 33, 100}}
\* Up to three gross lines.
GrossLines == {[With(s) EXCEPT !.type = 39, !.pricingMode = "GROSS"] :
                 s \in UNION {[1..n -> {Plain(x) : x \in {1, 2, 3, 4, 50, 101}}] :
                                n \in 0..3}}
\* Retentions, declared totals, receivers, modes and types.
Declared == {Nothing, [Nothing EXCEPT !.net = 98], [Nothing EXCEPT !.iva = 20]}
              \cup {[Nothing EXCEPT !.total = n] : n \in 115..120}
Kinds == {[MCPayload EXCEPT !.type = t, !.receiver = r, !.pricingMode = m,
                          !.retentions = w, !.declared = d, !.transport = tr,
                          !.items = <<MCLine(QtyUnit, 100, t \in {34, 41}, Absent, Absent)>>] :
            t \in supported \cup {35}, r \in {Absent, MCRut}, m \in {Absent, "NET", "GROSS"},
            w \in {<<>>, <<19>>, <<10, 9>>, <<-5>>, <<200>>}, d \in Declared,
            tr \in BOOLEAN}
Mixed == {[With(<<MCLine(1, 101, TRUE, Absent, Absent), MCLine(3, 33, FALSE, 10, Absent)>>)
             EXCEPT !.globalDiscount = g] : g \in {Absent, 5, 50}}
Receivers == {[MCPayload EXCEPT !.receiver = r] : r \in Ruts}

Boleta(t, price) == [With(<<MCLine(QtyUnit, price, t = 41, Absent, Absent)>>)
                       EXCEPT !.type = t]
Day == {Boleta(39, 10), Boleta(39, 25), Boleta(39, 41), Boleta(41, 7)}
Note(t) == [With(<<Plain(60)>>) EXCEPT !.type = t]

MCBatches ==
  {{p} : p \in OneLine \cup GrossLines \cup Kinds \cup Mixed \cup Receivers}
    \cup SUBSET Day \cup {{MCPayload, Note(61)}, {Boleta(39, 10), Note(61), Note(56)}}
===============================================================================
