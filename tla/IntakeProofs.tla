----------------------------- MODULE IntakeProofs -----------------------------
(***************************************************************************)
(* The intake implements the idempotency rules, and the daily RCOF reaches *)
(* the queue, for any calls, keys, bodies, days and errors.                *)
(***************************************************************************)
EXTENDS Intake, TLAPS

\* No two requests share a key or a reference.
UniqueInv == \A i, j \in rows : SameKey(i, j) \/ SameRef(i, j) => i = j

\* A client's call works on what it carries and is answered at its end.
ClientInv(c) ==
  /\ call[c].pc = "idle" => input[c] = NoInput
  /\ call[c].pc # "idle" => input[c] \in ClientInputs /\ call[c].in = input[c]
  /\ call[c].pc # "done" => answer[c] = "none"
  /\ call[c].pc # "receipts"
  /\ call[c].pc = "snapshot" => input[c] \in rows

\* A runner's call enqueues the RCOF of the day before it started.
RunnerInv(x) ==
  /\ call[x].pc \notin {"ref", "racedRef", "snapshot", "done"}
  /\ call[x].pc # "idle" => call[x].today \in 1..day
  /\ call[x].pc \in {"lookup", "create", "raced"} =>
       /\ call[x].today - 1 \in receipts
       /\ call[x].in = DailyInput(call[x].today - 1)

\* A refused insert has a winner, and it stays: rows are never removed.
RaceInv(x) ==
  /\ call[x].pc = "raced" => ~Unique(call[x].in)
  /\ call[x].pc = "racedRef" =>
       \E j \in rows : SameRef(call[x].in, j) /\ ~SameKey(call[x].in, j)

\* Every answer is justified by the requests taken so far.
AnswerInv == \A c \in Clients : answer[c] # "none" => answer[c] \in Abstract!Justified(input[c])

\* The inductive invariant.
IInv ==
  /\ TypeOK /\ UniqueInv /\ AnswerInv /\ DayIsReported
  /\ \A c \in Clients : ClientInv(c)
  /\ \A x \in Runners : RunnerInv(x)
  /\ \A x \in Callers : RaceInv(x)
-----------------------------------------------------------------------------
(* Inputs *)

\* Key and body determine an input.
LEMMA KeyAndBody ==
  ASSUME NEW i \in Inputs, NEW j \in Inputs, SameKey(i, j), i.body = j.body
  PROVE  i = j
  BY IntakeAssumption DEF Inputs, ClientInputs, DailyInput, Days, SameKey

\* Only the daily request of a day has that day's key.
LEMMA DailyKey ==
  ASSUME NEW d \in Days, NEW j \in Inputs, SameKey(DailyInput(d), j)
  PROVE  j = DailyInput(d)
  BY IntakeAssumption DEF Inputs, ClientInputs, DailyInput, Days, SameKey

\* A daily request has no reference.
LEMMA DailyRef == ASSUME NEW d, NEW j PROVE ~SameRef(DailyInput(d), j)
  BY DEF DailyInput, SameRef

LEMMA InputTypes ==
  /\ ClientInputs \subseteq Inputs
  /\ \A d \in Days : DailyInput(d) \in Inputs
  /\ NoInput \notin ClientInputs
  BY InputAssumption DEF Inputs

\* What Replay says about an input whose key is taken is justified.
LEMMA ReplayJustified ==
  ASSUME rows \subseteq Inputs, NEW i \in Inputs, ByKey(i) # {}
  PROVE  Replay(i) \in Abstract!Justified(i) /\ Replay(i) # "none"
  <1>1. PICK j \in rows : SameKey(i, j)
    BY DEF ByKey
  <1>2. CASE i \in rows
    BY <1>2 DEF Replay, Abstract!Justified
  <1>3. CASE i \notin rows
    <2>1. i.body # j.body
      BY <1>1, <1>3, KeyAndBody
    <2> QED
      BY <1>1, <1>3, <2>1 DEF Replay, SameKey, Abstract!Justified, Abstract!SameKey
  <1> QED
    BY <1>2, <1>3

\* Justified answers stay justified.
LEMMA JustifiedStays ==
  ASSUME rows \subseteq rows', NEW i, NEW a \in Abstract!Justified(i)
  PROVE  a \in Abstract!Justified(i)'
  BY DEF Abstract!Justified, Abstract!SameKey, Abstract!SameRef
-----------------------------------------------------------------------------
(* What the steps of a call have in common *)

\* The steps of the specification as steps of the idempotency rules.
AbstractStep == Abstract!Next \/ UNCHANGED Abstract!vars

\* A new request with a free key and a free reference keeps both unique.
LEMMA UniqueStays ==
  ASSUME UniqueInv, NEW i, Unique(i), rows' = rows \cup {i}
  PROVE  UniqueInv'
  <1>1. \A j \in rows : ~SameKey(i, j) /\ ~SameRef(i, j)
    BY DEF Unique, ByKey, ByRef
  <1>2. \A j \in rows : ~SameKey(j, i) /\ ~SameRef(j, i)
    BY <1>1 DEF SameKey, SameRef
  <1> QED
    BY <1>1, <1>2 DEF UniqueInv

\* A taken key or reference stays taken.
LEMMA TakenStays ==
  ASSUME rows \subseteq rows', NEW i
  PROVE  /\ ~Unique(i) => ~Unique(i)'
         /\ (\E j \in rows : SameRef(i, j) /\ ~SameKey(i, j))
              => \E j \in rows' : SameRef(i, j) /\ ~SameKey(i, j)
  BY DEF Unique, ByKey, ByRef

\* A refused insert without the same key meets the same reference.
LEMMA RefusedByRef ==
  ASSUME NEW i, ~Unique(i), ByKey(i) = {}
  PROVE  \E j \in rows : SameRef(i, j) /\ ~SameKey(i, j)
  BY DEF Unique, ByKey, ByRef

\* A request with the same reference and another key justifies the conflict.
LEMMA RefConflict ==
  ASSUME NEW i, NEW j \in rows, SameRef(i, j), ~SameKey(i, j)
  PROVE  "ref_conflict" \in Abstract!Justified(i)
  BY DEF SameRef, SameKey, Abstract!Justified, Abstract!SameRef, Abstract!SameKey

\* One call of a client goes to step s, with the answer a.
LEMMA ClientMoves ==
  ASSUME IInv, NEW c \in Clients,
         NEW s \in {"ref", "create", "raced", "racedRef", "snapshot", "done"},
         NEW a \in {"none", "accepted", "key_conflict", "ref_conflict"},
         call[c].pc \notin {"idle", "done"},
         call' = [call EXCEPT ![c].pc = s],
         answer' = [answer EXCEPT ![c] = a],
         a = "none" \/ (s = "done" /\ a \in Abstract!Justified(input[c])'),
         rows \subseteq rows', rows' \subseteq Inputs, UniqueInv',
         s = "snapshot" => input[c] \in rows',
         s = "raced" => ~Unique(input[c])',
         s = "racedRef" => \E j \in rows' : SameRef(input[c], j) /\ ~SameKey(input[c], j),
         UNCHANGED <<input, day, receipts, lastRcofDate, skipped>>,
         errors' \in 0..MaxErrors
  PROVE  IInv'
  <1> c \in Callers /\ \A x \in Runners : x \in Callers /\ x # c
    BY IntakeAssumption DEF Callers, Runners
  <1> \A d \in Clients : d \in Callers
    BY DEF Callers
  <1>1. TypeOK /\ ClientInv(c)
    BY DEF IInv
  <1>2. /\ call'[c].pc = s /\ call'[c].in = input[c] /\ call'[c] \in Call
        /\ \A x \in Callers \ {c} : call'[x] = call[x]
        /\ call' \in [Callers -> Call]
    BY <1>1 DEF TypeOK, Call, ClientInv
  <1>3. TypeOK'
    BY <1>1, <1>2 DEF TypeOK
  <1>4. AnswerInv'
    <2> SUFFICES ASSUME NEW d \in Clients, answer'[d] # "none"
                 PROVE  answer'[d] \in Abstract!Justified(input[d])'
      BY DEF AnswerInv
    <2>1. CASE d = c
      BY <2>1, <1>1 DEF TypeOK
    <2>2. CASE d # c
      <3>1. answer[d] # "none" /\ answer'[d] = answer[d]
        BY <2>2, <1>1 DEF TypeOK
      <3>2. answer[d] \in Abstract!Justified(input[d])
        BY <3>1 DEF IInv, AnswerInv
      <3> QED
        BY <3>1, <3>2, JustifiedStays
    <2> QED
      BY <2>1, <2>2
  <1>5. DayIsReported'
    BY DEF IInv, DayIsReported
  <1>6. \A d \in Clients : ClientInv(d)'
    <2> SUFFICES ASSUME NEW d \in Clients PROVE ClientInv(d)'
      OBVIOUS
    <2>1. CASE d = c
      BY <2>1, <1>1, <1>2 DEF ClientInv, TypeOK
    <2>2. CASE d # c
      <3>1. call'[d] = call[d] /\ answer'[d] = answer[d] /\ ClientInv(d)
        BY <2>2, <1>1, <1>2 DEF IInv, TypeOK
      <3> QED
        BY <3>1 DEF ClientInv
    <2> QED
      BY <2>1, <2>2
  <1>7. \A x \in Runners : RunnerInv(x)'
    BY <1>2 DEF IInv, RunnerInv
  <1>8. \A x \in Callers : RaceInv(x)'
    <2> SUFFICES ASSUME NEW x \in Callers PROVE RaceInv(x)'
      OBVIOUS
    <2>1. CASE x = c
      BY <2>1, <1>2 DEF RaceInv
    <2>2. CASE x # c
      <3>1. call'[x] = call[x] /\ RaceInv(x)
        BY <2>2, <1>2 DEF IInv
      <3> QED
        BY <3>1, TakenStays DEF RaceInv
    <2> QED
      BY <2>1, <2>2
  <1> QED
    BY <1>3, <1>4, <1>5, <1>6, <1>7, <1>8 DEF IInv

\* One run of the daily RCOF becomes n.
LEMMA RunnerMoves ==
  ASSUME IInv, NEW x \in Runners, NEW n \in Call,
         call' = [call EXCEPT ![x] = n], answer' = answer,
         n.pc \notin {"ref", "racedRef", "snapshot", "done"},
         n.pc # "idle" => n.today \in 1..day,
         n.pc \in {"lookup", "create", "raced"} =>
           n.today - 1 \in receipts /\ n.in = DailyInput(n.today - 1),
         n.pc = "raced" => ~Unique(n.in)',
         rows \subseteq rows', rows' \subseteq Inputs, UniqueInv',
         UNCHANGED <<input, day, receipts>>,
         lastRcofDate' \in 0..day, DayIsReported',
         skipped' \subseteq receipts, errors' \in 0..MaxErrors
  PROVE  IInv'
  <1> x \in Callers /\ \A d \in Clients : d \in Callers /\ d # x
    BY IntakeAssumption DEF Callers, Runners
  <1> \A y \in Runners : y \in Callers
    BY DEF Callers
  <1>1. TypeOK
    BY DEF IInv
  <1>2. /\ call'[x] = n /\ \A y \in Callers \ {x} : call'[y] = call[y]
        /\ call' \in [Callers -> Call]
    BY <1>1 DEF TypeOK
  <1>3. TypeOK'
    BY <1>1, <1>2 DEF TypeOK
  <1>4. AnswerInv'
    BY JustifiedStays DEF IInv, AnswerInv
  <1>6. \A d \in Clients : ClientInv(d)'
    BY <1>2 DEF IInv, ClientInv
  <1>7. \A y \in Runners : RunnerInv(y)'
    BY <1>2 DEF IInv, RunnerInv
  <1>8. \A y \in Callers : RaceInv(y)'
    <2> SUFFICES ASSUME NEW y \in Callers PROVE RaceInv(y)'
      OBVIOUS
    <2>1. CASE y = x
      BY <2>1, <1>2 DEF RaceInv
    <2>2. CASE y # x
      <3>1. call'[y] = call[y] /\ RaceInv(y)
        BY <2>2, <1>2 DEF IInv
      <3> QED
        BY <3>1, TakenStays DEF RaceInv
    <2> QED
      BY <2>1, <2>2
  <1> QED
    BY <1>3, <1>4, <1>6, <1>7, <1>8 DEF IInv

\* A run is done: its day is in the queue, had no receipts or was skipped.
LEMMA RunnerDone ==
  ASSUME IInv, NEW x \in Runners, call[x].pc # "idle",
         lastRcofDate' = IF x = Worker THEN call[x].today ELSE lastRcofDate,
         rows \subseteq rows', skipped \subseteq skipped',
         UNCHANGED <<day, receipts>>,
         call[x].today - 1 \in receipts =>
           DailyInput(call[x].today - 1) \in rows' \/ call[x].today - 1 \in skipped'
  PROVE  lastRcofDate' \in 0..day /\ DayIsReported'
  <1>1. TypeOK /\ call[x].today \in 1..day /\ DayIsReported
    BY DEF IInv, RunnerInv
  <1>2. day \in Nat /\ receipts \subseteq 1..(day - 1)
    BY <1>1, IntakeAssumption DEF TypeOK
  <1>3. lastRcofDate' \in 0..day
    BY <1>1, <1>2 DEF TypeOK
  <1>4. ASSUME NEW d \in receipts, d < day - 1 \/ lastRcofDate' = day
        PROVE  DailyInput(d) \in rows' \/ d \in skipped'
    <2>1. CASE d < day - 1 \/ lastRcofDate = day
      BY <2>1, <1>1 DEF DayIsReported
    <2>2. CASE ~(d < day - 1) /\ lastRcofDate # day
      <3>1. call[x].today = day
        BY <2>2, <1>4
      <3>2. d = day - 1
        BY <2>2, <1>2
      <3> QED
        BY <3>1, <3>2
    <2> QED
      BY <2>1, <2>2
  <1> QED
    BY <1>3, <1>4 DEF DayIsReported
-----------------------------------------------------------------------------
(* The calls of clients *)

\* An answer to a waiting client is a Reply of the idempotency rules.
LEMMA ReplyStep ==
  ASSUME TypeOK, NEW c \in Clients, ClientInv(c), call[c].pc \notin {"idle", "done"},
         NEW a \in Abstract!Justified(input[c]),
         answer' = [answer EXCEPT ![c] = a], UNCHANGED <<rows, input>>
  PROVE  AbstractStep
  BY InputTypes DEF AbstractStep, ClientInv, Abstract!Next, Abstract!Reply

\* What a client's step starts from.
LEMMA ClientFacts ==
  ASSUME IInv, NEW c \in Clients, call[c].pc # "idle"
  PROVE  /\ TypeOK /\ UniqueInv /\ ClientInv(c) /\ RaceInv(c)
         /\ c \in Callers /\ rows \subseteq Inputs /\ errors \in 0..MaxErrors
         /\ call[c].in = input[c] /\ input[c] \in Inputs
         /\ call[c].pc # "done" => answer[c] = "none" /\ answer = [answer EXCEPT ![c] = "none"]
         /\ UNCHANGED rows => UniqueInv' /\ rows' \subseteq Inputs
  <1>1. TypeOK /\ UniqueInv /\ ClientInv(c) /\ RaceInv(c) /\ c \in Callers
    BY DEF IInv, Callers
  <1>2. UNCHANGED rows => UniqueInv'
    BY <1>1 DEF UniqueInv
  <1> QED
    BY <1>1, <1>2, InputTypes DEF TypeOK, ClientInv

\* Any step of enqueue that a client's call takes.
LEMMA ClientStep ==
  ASSUME IInv, NEW c \in Clients, Step(c)
  PROVE  IInv' /\ AbstractStep
  <1> DEFINE i == input[c]
  <1>0. call[c].pc \notin {"idle", "done"}
    BY DEF Step, Lookup, LookupRef, Create, Raced, RacedRef, StoreSnapshot
  <1>f. /\ TypeOK /\ UniqueInv /\ ClientInv(c) /\ RaceInv(c)
        /\ c \in Callers /\ rows \subseteq Inputs /\ errors \in 0..MaxErrors
        /\ call[c].in = i /\ i \in Inputs /\ answer[c] = "none"
        /\ answer = [answer EXCEPT ![c] = "none"]
        /\ UNCHANGED rows => UniqueInv' /\ rows' \subseteq Inputs
    BY <1>0, ClientFacts
  <1>r. ASSUME NEW a \in Abstract!Justified(i), Done(c, a),
               UNCHANGED <<rows, input, day, receipts, skipped, errors>>
        PROVE  IInv' /\ AbstractStep
    <2>1. a \in {"accepted", "key_conflict", "ref_conflict"} /\ a # "none"
      BY <1>r DEF Abstract!Justified
    <2>2. /\ call' = [call EXCEPT ![c].pc = "done"] /\ answer' = [answer EXCEPT ![c] = a]
          /\ UNCHANGED lastRcofDate
      BY <1>r DEF Done, Goto
    <2>3. a \in Abstract!Justified(input[c])'
      BY <1>r, JustifiedStays
    <2>4. IInv'
      BY <1>0, <1>f, <1>r, <2>1, <2>2, <2>3, ClientMoves
    <2>5. AbstractStep
      BY <1>0, <1>f, <1>r, <2>2, ReplyStep
    <2> QED
      BY <2>4, <2>5
  <1>m. ASSUME NEW s \in {"ref", "create", "raced", "racedRef"}, Goto(c, s),
               s = "raced" => ~Unique(i),
               s = "racedRef" => \E j \in rows : SameRef(i, j) /\ ~SameKey(i, j),
               UNCHANGED <<rows, input, answer, day, receipts, lastRcofDate, skipped, errors>>
        PROVE  IInv' /\ AbstractStep
    <2>1. call' = [call EXCEPT ![c].pc = s] /\ answer' = [answer EXCEPT ![c] = "none"]
      BY <1>f, <1>m DEF Goto
    <2>2. /\ s = "raced" => ~Unique(input[c])'
          /\ s = "racedRef" =>
               \E j \in rows' : SameRef(input[c], j) /\ ~SameKey(input[c], j)
      BY <1>m, TakenStays
    <2>3. IInv'
      BY <1>0, <1>f, <1>m, <2>1, <2>2, ClientMoves
    <2> QED
      BY <1>m, <2>3 DEF AbstractStep, Abstract!vars
  <1>1. CASE Lookup(c)
    <2>1. CASE ByKey(i) # {}
      <3>1. Replay(i) \in Abstract!Justified(i)
        BY <1>f, <2>1, ReplayJustified
      <3>2. Done(c, Replay(i)) /\ UNCHANGED <<rows, input, day, receipts, skipped, errors>>
        BY <1>f, <1>1, <2>1 DEF Lookup
      <3> QED
        BY <1>r, <3>1, <3>2
    <2>2. CASE ByKey(i) = {}
      <3>1. \E s \in {"ref", "create"} :
              /\ Goto(c, s)
              /\ UNCHANGED <<rows, input, answer, day, receipts, lastRcofDate, skipped, errors>>
        BY <1>f, <1>1, <2>2 DEF Lookup
      <3> QED
        BY <1>m, <3>1
    <2> QED
      BY <2>1, <2>2
  <1>2. CASE LookupRef(c)
    <2>1. CASE \E j \in ByRef(i) : j.key # i.key
      <3>1. PICK j \in rows : SameRef(i, j) /\ j.key # i.key
        BY <2>1 DEF ByRef
      <3>2. "ref_conflict" \in Abstract!Justified(i)
        BY <3>1, RefConflict DEF SameKey
      <3>3. /\ Done(c, "ref_conflict")
            /\ UNCHANGED <<rows, input, day, receipts, skipped, errors>>
        BY <1>f, <1>2, <2>1 DEF LookupRef
      <3> QED
        BY <1>r, <3>2, <3>3
    <2>2. CASE ~\E j \in ByRef(i) : j.key # i.key
      <3>1. /\ Goto(c, "create")
            /\ UNCHANGED <<rows, input, answer, day, receipts, lastRcofDate, skipped, errors>>
        BY <1>f, <1>2, <2>2 DEF LookupRef
      <3> QED
        BY <1>m, <3>1
    <2> QED
      BY <2>1, <2>2
  <1>3. CASE Create(c)
    <2>1. CASE Unique(i)
      <3>1. /\ rows' = rows \cup {i}
            /\ call' = [call EXCEPT ![c].pc = "snapshot"]
            /\ answer' = [answer EXCEPT ![c] = "none"]
            /\ UNCHANGED <<input, answer, day, receipts, lastRcofDate, skipped, errors>>
        BY <1>f, <1>3, <2>1 DEF Create, Goto
      <3>2. UniqueInv'
        BY <1>f, <2>1, <3>1, UniqueStays
      <3>3. IInv'
        BY <1>0, <1>f, <3>1, <3>2, ClientMoves
      <3>4. \A j \in rows : ~Abstract!SameKey(i, j) /\ ~Abstract!SameRef(i, j)
        BY <2>1 DEF Unique, ByKey, ByRef, SameKey, SameRef, Abstract!SameKey, Abstract!SameRef
      <3>5. Abstract!Take
        BY <1>f, <3>1, <3>4 DEF Abstract!Take
      <3> QED
        BY <3>3, <3>5 DEF AbstractStep, Abstract!Next
    <2>2. CASE ~Unique(i)
      <3>1. /\ Goto(c, "raced")
            /\ UNCHANGED <<rows, input, answer, day, receipts, lastRcofDate, skipped, errors>>
        BY <1>f, <1>3, <2>2 DEF Create
      <3> QED
        BY <1>m, <2>2, <3>1
    <2> QED
      BY <2>1, <2>2
  <1>4. CASE Raced(c)
    <2>1. CASE ByKey(i) # {}
      <3>1. Replay(i) \in Abstract!Justified(i)
        BY <1>f, <2>1, ReplayJustified
      <3>2. Done(c, Replay(i)) /\ UNCHANGED <<rows, input, day, receipts, skipped, errors>>
        BY <1>f, <1>4, <2>1 DEF Raced
      <3> QED
        BY <1>r, <3>1, <3>2
    <2>2. CASE ByKey(i) = {}
      <3>1. /\ Goto(c, "racedRef")
            /\ UNCHANGED <<rows, input, answer, day, receipts, lastRcofDate, skipped, errors>>
        BY <1>f, <1>4, <2>2 DEF Raced
      <3>2. ~Unique(i)
        BY <1>f, <1>4 DEF Raced, RaceInv
      <3>3. \E j \in rows : SameRef(i, j) /\ ~SameKey(i, j)
        BY <2>2, <3>2, RefusedByRef
      <3> QED
        BY <1>m, <3>1, <3>3
    <2> QED
      BY <2>1, <2>2
  <1>5. CASE RacedRef(c)
    <2>1. PICK j \in rows : SameRef(i, j) /\ ~SameKey(i, j)
      BY <1>f, <1>5 DEF RacedRef, RaceInv
    <2>2. ByRef(i) # {}
      BY <2>1 DEF ByRef
    <2>3. Done(c, "ref_conflict") /\ UNCHANGED <<rows, input, day, receipts, skipped, errors>>
      BY <1>f, <1>5, <2>2 DEF RacedRef
    <2>4. "ref_conflict" \in Abstract!Justified(i)
      BY <2>1, RefConflict
    <2> QED
      BY <1>r, <2>3, <2>4
  <1>6. CASE StoreSnapshot(c)
    <2>1. "accepted" \in Abstract!Justified(i)
      BY <1>f, <1>6 DEF StoreSnapshot, ClientInv, Abstract!Justified
    <2>2. Done(c, "accepted") /\ UNCHANGED <<rows, input, day, receipts, skipped, errors>>
      BY <1>6 DEF StoreSnapshot
    <2> QED
      BY <1>r, <2>1, <2>2
  <1> QED
    BY <1>1, <1>2, <1>3, <1>4, <1>5, <1>6 DEF Step

\* A client's call that fails is left without an answer.
LEMMA CallFailsStep ==
  ASSUME IInv, NEW c \in Clients, CallFails(c)
  PROVE  IInv' /\ AbstractStep
  <1>1. /\ call[c].pc \notin {"idle", "done"}
        /\ call' = [call EXCEPT ![c].pc = "done"]
        /\ UNCHANGED <<rows, input, answer, day, receipts, lastRcofDate, skipped>>
        /\ errors < MaxErrors /\ errors' = errors + 1
    BY DEF CallFails, Goto
  <1>2. /\ UniqueInv' /\ rows' \subseteq Inputs /\ errors \in 0..MaxErrors
        /\ answer' = [answer EXCEPT ![c] = "none"]
    BY <1>1, ClientFacts
  <1>3. errors' \in 0..MaxErrors
    BY <1>1, <1>2, IntakeAssumption
  <1>4. IInv'
    BY <1>1, <1>2, <1>3, ClientMoves
  <1> QED
    BY <1>1, <1>4 DEF AbstractStep, Abstract!vars

\* A call arrives.
LEMMA ArriveStep ==
  ASSUME IInv, NEW c \in Clients, Arrive(c)
  PROVE  IInv' /\ AbstractStep
  <1>1. PICK i \in ClientInputs :
          /\ input[c] = NoInput /\ input' = [input EXCEPT ![c] = i]
          /\ call' = [call EXCEPT ![c] = [pc |-> "lookup", in |-> i, today |-> 0]]
          /\ UNCHANGED <<rows, answer, day, receipts, lastRcofDate, skipped, errors>>
    BY DEF Arrive
  <1>2. /\ TypeOK /\ ClientInv(c) /\ i \in Inputs /\ i # NoInput
        /\ call[c].pc = "idle" /\ answer[c] = "none"
    BY <1>1, InputTypes DEF IInv, ClientInv
  <1>3. c \in Callers /\ \A x \in Runners : x \in Callers /\ x # c
    BY IntakeAssumption DEF Callers, Runners
  <1>4. \A d \in Clients : d \in Callers
    BY DEF Callers
  <1>5. /\ call'[c].pc = "lookup" /\ call'[c].in = i
        /\ \A x \in Callers \ {c} : call'[x] = call[x]
        /\ call' \in [Callers -> Call]
        /\ input'[c] = i /\ \A d \in Clients \ {c} : input'[d] = input[d]
    <2> DEFINE n == [pc |-> "lookup", in |-> i, today |-> 0]
    <2>1. n.pc = "lookup" /\ n.in = i
      OBVIOUS
    <2>2. n \in Call
      BY <1>2, IntakeAssumption DEF Call
    <2>3. call \in [Callers -> Call] /\ call' = [call EXCEPT ![c] = n]
      BY <1>1, <1>2 DEF TypeOK
    <2>4. input'[c] = i /\ \A d \in Clients \ {c} : input'[d] = input[d]
      BY <1>1, <1>2 DEF TypeOK
    <2> QED
      BY <1>3, <2>1, <2>2, <2>3, <2>4
  <1>6. TypeOK' /\ UniqueInv' /\ DayIsReported'
    BY <1>1, <1>2, <1>5 DEF IInv, TypeOK, UniqueInv, DayIsReported
  <1>7. AnswerInv'
    <2> SUFFICES ASSUME NEW d \in Clients, answer[d] # "none"
                 PROVE  answer[d] \in Abstract!Justified(input[d])'
      BY <1>1 DEF AnswerInv
    <2>1. d # c /\ answer[d] \in Abstract!Justified(input[d])
      BY <1>2 DEF IInv, AnswerInv
    <2>2. input'[d] = input[d]
      BY <1>5, <2>1
    <2> QED
      BY <1>1, <2>1, <2>2 DEF Abstract!Justified, Abstract!SameKey, Abstract!SameRef
  <1>8. \A d \in Clients : ClientInv(d)'
    <2> SUFFICES ASSUME NEW d \in Clients PROVE ClientInv(d)'
      OBVIOUS
    <2>1. CASE d = c
      BY <2>1, <1>1, <1>2, <1>5 DEF ClientInv
    <2>2. CASE d # c
      BY <2>2, <1>1, <1>4, <1>5 DEF IInv, ClientInv
    <2> QED
      BY <2>1, <2>2
  <1>9. \A x \in Runners : RunnerInv(x)'
    BY <1>1, <1>3, <1>5 DEF IInv, RunnerInv
  <1>10. \A x \in Callers : RaceInv(x)'
    <2> SUFFICES ASSUME NEW x \in Callers PROVE RaceInv(x)'
      OBVIOUS
    <2>1. CASE x = c
      BY <2>1, <1>5 DEF RaceInv
    <2>2. CASE x # c
      <3>1. call'[x] = call[x] /\ RaceInv(x)
        BY <2>2, <1>5 DEF IInv
      <3> QED
        BY <1>1, <3>1, TakenStays DEF RaceInv
    <2> QED
      BY <2>1, <2>2
  <1>11. Abstract!Call(c)
    BY <1>1, <1>2 DEF Abstract!Call
  <1> QED
    BY <1>6, <1>7, <1>8, <1>9, <1>10, <1>11 DEF IInv, AbstractStep, Abstract!Next
-----------------------------------------------------------------------------
(* The daily runs *)

\* What a runner's step starts from.
LEMMA RunnerFacts ==
  ASSUME IInv, NEW x \in Runners
  PROVE  /\ TypeOK /\ UniqueInv /\ RunnerInv(x) /\ RaceInv(x) /\ DayIsReported
         /\ x \in Callers /\ x \notin Clients /\ call[x] \in Call /\ IdleCall \in Call
         /\ call[x].pc # "idle" => call[x].today - 1 \in 0..MaxDay
         /\ UNCHANGED rows => UniqueInv' /\ rows' \subseteq Inputs
         /\ UNCHANGED <<rows, day, receipts, lastRcofDate, skipped>> =>
              lastRcofDate' \in 0..day /\ DayIsReported' /\ skipped' \subseteq receipts
  <1>1. /\ TypeOK /\ UniqueInv /\ RunnerInv(x) /\ RaceInv(x) /\ DayIsReported
        /\ x \in Callers /\ x \notin Clients
    BY IntakeAssumption DEF IInv, Callers, Runners
  <1>2. call[x] \in Call /\ IdleCall \in Call
    BY <1>1, IntakeAssumption DEF TypeOK, Call, IdleCall
  <1>3. call[x].pc # "idle" => call[x].today - 1 \in 0..MaxDay
    BY <1>1, IntakeAssumption DEF TypeOK, RunnerInv
  <1>4. UNCHANGED rows => UniqueInv' /\ rows' \subseteq Inputs
    BY <1>1 DEF UniqueInv, TypeOK
  <1>5. UNCHANGED <<rows, day, receipts, lastRcofDate, skipped>> =>
          lastRcofDate' \in 0..day /\ DayIsReported' /\ skipped' \subseteq receipts
    BY <1>1 DEF TypeOK, DayIsReported
  <1> QED
    BY <1>1, <1>2, <1>3, <1>4, <1>5

\* A run that ends after its day was handled.
LEMMA RunnerEnds ==
  ASSUME IInv, NEW x \in Runners, NEW v, call[x].pc # "idle", Done(x, v),
         rows \subseteq rows', rows' \subseteq Inputs, UniqueInv',
         skipped \subseteq skipped', skipped' \subseteq receipts,
         UNCHANGED <<input, day, receipts>>, errors' \in 0..MaxErrors,
         call[x].today - 1 \in receipts =>
           DailyInput(call[x].today - 1) \in rows' \/ call[x].today - 1 \in skipped'
  PROVE  IInv'
  <1>1. x \notin Clients /\ IdleCall \in Call
    BY RunnerFacts
  <1>2. /\ call' = [call EXCEPT ![x] = IdleCall] /\ answer' = answer
        /\ lastRcofDate' = IF x = Worker THEN call[x].today ELSE lastRcofDate
    BY <1>1 DEF Done
  <1>3. lastRcofDate' \in 0..day /\ DayIsReported'
    BY <1>2, RunnerDone
  <1>4. IdleCall.pc = "idle"
    BY DEF IdleCall
  <1> QED
    BY <1>1, <1>2, <1>3, <1>4, RunnerMoves

\* A run that only goes to another step.
LEMMA RunnerGoes ==
  ASSUME IInv, NEW x \in Runners, NEW n \in Call, call' = [call EXCEPT ![x] = n],
         n.pc \notin {"ref", "racedRef", "snapshot", "done"},
         n.pc # "idle" => n.today \in 1..day,
         n.pc \in {"lookup", "create", "raced"} =>
           n.today - 1 \in receipts /\ n.in = DailyInput(n.today - 1),
         n.pc = "raced" => ~Unique(n.in),
         UNCHANGED <<rows, input, answer, day, receipts, lastRcofDate, skipped>>,
         errors' \in 0..MaxErrors
  PROVE  IInv' /\ AbstractStep
  <1>1. /\ UniqueInv' /\ rows' \subseteq Inputs
        /\ lastRcofDate' \in 0..day /\ DayIsReported' /\ skipped' \subseteq receipts
    BY RunnerFacts
  <1>2. n.pc = "raced" => ~Unique(n.in)'
    BY DEF Unique, ByKey, ByRef
  <1>3. IInv'
    BY <1>1, <1>2, RunnerMoves
  <1> QED
    BY <1>3 DEF AbstractStep, Abstract!vars

\* Any step of enqueue that a run takes.
LEMMA RunnerStep ==
  ASSUME IInv, NEW x \in Runners, Step(x)
  PROVE  IInv' /\ AbstractStep
  <1> DEFINE d == call[x].today - 1  i == DailyInput(d)
  <1>f. /\ TypeOK /\ UniqueInv /\ RunnerInv(x) /\ RaceInv(x)
        /\ x \in Callers /\ x \notin Clients /\ call[x] \in Call
        /\ UNCHANGED rows => UniqueInv' /\ rows' \subseteq Inputs
    BY RunnerFacts
  <1>0. call[x].pc \in {"lookup", "create", "raced"}
    BY <1>f DEF RunnerInv, Step, Lookup, LookupRef, Create, Raced, RacedRef, StoreSnapshot
  <1>i. /\ d \in receipts /\ d \in Days /\ call[x].in = i /\ i \in Inputs /\ i.ref = NoRef
        /\ call[x].today \in 1..day /\ errors \in 0..MaxErrors
        /\ skipped \subseteq receipts /\ rows \subseteq Inputs
    <2>1. d \in receipts /\ call[x].in = i /\ call[x].today \in 1..day
      BY <1>f, <1>0 DEF RunnerInv
    <2>2. d \in Days
      BY <1>f, <2>1, IntakeAssumption DEF TypeOK, Days
    <2> QED
      BY <1>f, <2>1, <2>2, InputTypes DEF TypeOK, DailyInput
  <1>k. ASSUME ByKey(i) # {} PROVE i \in rows
    <2>1. PICK j \in rows : SameKey(i, j)
      BY <1>k DEF ByKey
    <2> QED
      BY <1>i, <2>1, DailyKey
  <1>e. ASSUME NEW v, Done(x, v), i \in rows',
               rows' = rows \/ (Unique(i) /\ rows' = rows \cup {i}),
               UNCHANGED <<input, day, receipts, skipped, errors>>
        PROVE  IInv' /\ AbstractStep
    <2>1. UniqueInv' /\ rows' \subseteq Inputs /\ rows \subseteq rows'
      BY <1>f, <1>i, <1>e, UniqueStays
    <2>2. IInv'
      BY <1>0, <1>i, <1>e, <2>1, RunnerEnds
    <2>3. answer' = answer
      BY <1>f, <1>e DEF Done
    <2>4. CASE rows' = rows
      BY <1>e, <2>2, <2>3, <2>4 DEF AbstractStep, Abstract!vars
    <2>5. CASE Unique(i) /\ rows' = rows \cup {i}
      <3>1. \A j \in rows : ~Abstract!SameKey(i, j) /\ ~Abstract!SameRef(i, j)
        BY <2>5 DEF Unique, ByKey, ByRef, SameKey, SameRef, Abstract!SameKey, Abstract!SameRef
      <3>2. Abstract!Take
        BY <1>i, <1>e, <2>3, <2>5, <3>1 DEF Abstract!Take
      <3> QED
        BY <2>2, <3>2 DEF AbstractStep, Abstract!Next
    <2> QED
      BY <1>e, <2>4, <2>5
  <1>m. ASSUME NEW s \in {"create", "raced"}, Goto(x, s), s = "raced" => ~Unique(i),
               UNCHANGED <<rows, input, answer, day, receipts, lastRcofDate, skipped, errors>>
        PROVE  IInv' /\ AbstractStep
    <2> DEFINE n == [call[x] EXCEPT !.pc = s]
    <2>1. n \in Call /\ n.pc = s /\ n.in = i /\ n.today = call[x].today
      BY <1>f, <1>i DEF Call
    <2>2. call' = [call EXCEPT ![x] = n]
      BY <1>f, <1>m DEF Goto, TypeOK
    <2> HIDE DEF n
    <2> QED
      BY <1>i, <1>m, <2>1, <2>2, RunnerGoes
  <1>1. CASE Lookup(x)
    <2>1. CASE ByKey(i) # {}
      <3>1. Done(x, Replay(i)) /\ UNCHANGED <<rows, input, day, receipts, skipped, errors>>
        BY <1>1, <1>i, <2>1 DEF Lookup
      <3> QED
        BY <1>e, <1>k, <2>1, <3>1
    <2>2. CASE ByKey(i) = {}
      <3>1. /\ Goto(x, "create")
            /\ UNCHANGED <<rows, input, answer, day, receipts, lastRcofDate, skipped, errors>>
        BY <1>1, <1>i, <2>2 DEF Lookup
      <3> QED
        BY <1>m, <3>1
    <2> QED
      BY <2>1, <2>2
  <1>2. CASE Create(x)
    <2>1. CASE Unique(i)
      <3>1. /\ rows' = rows \cup {i} /\ Done(x, "accepted")
            /\ UNCHANGED <<input, day, receipts, skipped, errors>>
        BY <1>f, <1>2, <1>i, <2>1 DEF Create
      <3> QED
        BY <1>e, <2>1, <3>1
    <2>2. CASE ~Unique(i)
      <3>1. /\ Goto(x, "raced")
            /\ UNCHANGED <<rows, input, answer, day, receipts, lastRcofDate, skipped, errors>>
        BY <1>2, <1>i, <2>2 DEF Create
      <3> QED
        BY <1>m, <2>2, <3>1
    <2> QED
      BY <2>1, <2>2
  <1>3. CASE Raced(x)
    <2>1. ~Unique(i) /\ ByRef(i) = {}
      BY <1>f, <1>3, <1>i, DailyRef DEF Raced, RaceInv, ByRef
    <2>2. ByKey(i) # {}
      BY <2>1 DEF Unique
    <2>3. Done(x, Replay(i)) /\ UNCHANGED <<rows, input, day, receipts, skipped, errors>>
      BY <1>3, <1>i, <2>2 DEF Raced
    <2> QED
      BY <1>e, <1>k, <2>2, <2>3
  <1>4. ~LookupRef(x) /\ ~RacedRef(x) /\ ~StoreSnapshot(x)
    BY <1>0 DEF LookupRef, RacedRef, StoreSnapshot
  <1> QED
    BY <1>1, <1>2, <1>3, <1>4 DEF Step

\* A run starts, looks for receipts, or meets an error.
LEMMA DailyStep ==
  ASSUME IInv, NEW x \in Runners,
         StartDaily(x) \/ CheckReceipts(x) \/ TenantFails(x) \/ RunFails(x)
  PROVE  IInv' /\ AbstractStep
  <1> DEFINE d == call[x].today - 1
  <1>f. /\ TypeOK /\ UniqueInv /\ RunnerInv(x) /\ DayIsReported
        /\ x \in Callers /\ x \notin Clients /\ call[x] \in Call /\ IdleCall \in Call
        /\ UNCHANGED rows => UniqueInv' /\ rows' \subseteq Inputs
    BY RunnerFacts
  <1>t. /\ day \in 1..MaxDay /\ receipts \subseteq 1..(day - 1) /\ errors \in 0..MaxErrors
        /\ skipped \subseteq receipts
    BY <1>f DEF TypeOK
  <1>1. CASE StartDaily(x)
    <2> DEFINE n == [pc |-> "receipts", in |-> NoInput, today |-> day]
    <2>1. n \in Call
      BY <1>t, IntakeAssumption DEF Call
    <2>2. n.pc = "receipts" /\ n.today \in 1..day
      BY <1>t, IntakeAssumption
    <2>3. /\ call' = [call EXCEPT ![x] = n]
          /\ UNCHANGED <<rows, input, answer, day, receipts, lastRcofDate, skipped, errors>>
      BY <1>1 DEF StartDaily
    <2> HIDE DEF n
    <2> QED
      BY <1>t, <2>1, <2>2, <2>3, RunnerGoes
  <1>2. CASE CheckReceipts(x)
    <2>1. call[x].pc = "receipts" /\ call[x].today \in 1..day
      BY <1>2, <1>f DEF CheckReceipts, RunnerInv
    <2>2. CASE d \in receipts
      <3> DEFINE n == [[call[x] EXCEPT !.pc = "lookup"] EXCEPT !.in = DailyInput(d)]
      <3>0. d \in Days
        BY <1>f, <2>1, <2>2, IntakeAssumption DEF TypeOK, Days
      <3>1. DailyInput(d) \in Inputs
        BY <3>0, InputTypes
      <3>2. /\ n \in Call /\ n.pc = "lookup" /\ n.in = DailyInput(d)
            /\ n.today = call[x].today
        BY <1>f, <3>1 DEF Call
      <3>3. /\ call' = [call EXCEPT ![x].pc = "lookup", ![x].in = DailyInput(d)]
            /\ UNCHANGED <<rows, input, answer, day, receipts, lastRcofDate, skipped, errors>>
        BY <1>2, <2>2 DEF CheckReceipts
      <3>4. call' = [call EXCEPT ![x] = n]
        BY <1>f, <3>3 DEF TypeOK
      <3> HIDE DEF n
      <3> QED
        BY <1>t, <2>1, <2>2, <3>2, <3>3, <3>4, RunnerGoes
    <2>3. CASE d \notin receipts
      <3>1. Done(x, "none") /\ UNCHANGED <<rows, input, day, receipts, skipped, errors>>
        BY <1>2, <2>3 DEF CheckReceipts
      <3>2. IInv'
        BY <1>f, <1>t, <2>1, <2>3, <3>1, RunnerEnds
      <3>3. answer' = answer
        BY <1>f, <3>1 DEF Done
      <3> QED
        BY <3>1, <3>2, <3>3 DEF AbstractStep, Abstract!vars
    <2> QED
      BY <2>2, <2>3
  <1>3. CASE TenantFails(x)
    <2>1. /\ call[x].pc # "idle" /\ Done(x, "error") /\ UNCHANGED <<rows, input, day, receipts>>
          /\ skipped' = skipped \cup ({d} \cap receipts)
          /\ errors < MaxErrors /\ errors' = errors + 1
      BY <1>3 DEF TenantFails
    <2>2. skipped' \subseteq receipts
      BY <1>t, <2>1
    <2>5. errors' \in 0..MaxErrors
      BY <1>t, <2>1, IntakeAssumption
    <2>3. IInv'
      BY <1>f, <2>1, <2>2, <2>5, RunnerEnds
    <2>4. answer' = answer
      BY <1>f, <2>1 DEF Done
    <2> QED
      BY <2>1, <2>3, <2>4 DEF AbstractStep, Abstract!vars
  <1>4. CASE RunFails(x)
    <2>1. /\ call' = [call EXCEPT ![x] = IdleCall] /\ IdleCall.pc = "idle"
          /\ UNCHANGED <<rows, input, answer, day, receipts, lastRcofDate, skipped>>
          /\ errors < MaxErrors /\ errors' = errors + 1
      BY <1>4 DEF RunFails, IdleCall
    <2>2. errors' \in 0..MaxErrors
      BY <1>t, <2>1, IntakeAssumption
    <2> QED
      BY <1>f, <2>1, <2>2, RunnerGoes
  <1> QED
    BY <1>1, <1>2, <1>3, <1>4

\* A day passes: the worker's run of the day before it has put every past day
\* with receipts in the queue.
LEMMA NextDayStep ==
  ASSUME IInv, NextDay
  PROVE  IInv' /\ AbstractStep
  <1>1. PICK r \in SUBSET {day} : receipts' = receipts \cup r
    BY DEF NextDay
  <1>2. /\ day < MaxDay /\ lastRcofDate = day /\ day' = day + 1
        /\ UNCHANGED <<rows, input, answer, call, lastRcofDate, skipped, errors>>
    BY DEF NextDay
  <1>3. TypeOK /\ DayIsReported /\ day \in 1..MaxDay /\ receipts \subseteq 1..(day - 1)
    BY DEF IInv, TypeOK
  <1>4. TypeOK'
    <2>1. day' \in 1..MaxDay /\ lastRcofDate' \in 0..day' /\ receipts' \subseteq 1..(day' - 1)
      BY <1>1, <1>2, <1>3, IntakeAssumption
    <2> QED
      BY <1>1, <1>2, <1>3, <2>1 DEF TypeOK
  <1>5. DayIsReported'
    <2> SUFFICES ASSUME NEW d \in receipts', d < day' - 1 \/ lastRcofDate' = day'
                 PROVE  DailyInput(d) \in rows \/ d \in skipped
      BY <1>2 DEF DayIsReported
    <2>1. d < day /\ d \in receipts
      BY <1>1, <1>2, <1>3, IntakeAssumption
    <2> QED
      BY <1>2, <1>3, <2>1 DEF DayIsReported
  <1>6. AnswerInv' /\ UniqueInv'
    BY <1>2 DEF IInv, AnswerInv, UniqueInv, Abstract!Justified, Abstract!SameKey, Abstract!SameRef
  <1>7. \A c \in Clients : ClientInv(c)'
    BY <1>2 DEF IInv, ClientInv
  <1>8. \A x \in Runners : RunnerInv(x)'
    BY <1>1, <1>2, <1>3, IntakeAssumption DEF IInv, RunnerInv
  <1>9. \A x \in Callers : RaceInv(x)'
    BY <1>2 DEF IInv, RaceInv, Unique, ByKey, ByRef
  <1> QED
    BY <1>2, <1>4, <1>5, <1>6, <1>7, <1>8, <1>9 DEF IInv, AbstractStep, Abstract!vars

\* The worker restarts.
LEMMA RestartStep ==
  ASSUME IInv, Restart
  PROVE  IInv' /\ AbstractStep
  <1>1. /\ call' = [call EXCEPT ![Worker] = IdleCall] /\ lastRcofDate' = 0
        /\ errors < MaxErrors /\ errors' = errors + 1
        /\ UNCHANGED <<rows, input, answer, day, receipts, skipped>>
    BY DEF Restart
  <1>2. Worker \in Runners /\ IdleCall.pc = "idle"
    BY DEF Runners, IdleCall
  <1>3. TypeOK /\ IdleCall \in Call /\ DayIsReported
    BY <1>2, RunnerFacts
  <1>4. errors' \in 0..MaxErrors /\ lastRcofDate' \in 0..day /\ lastRcofDate' # day
    BY <1>1, <1>3, IntakeAssumption DEF TypeOK
  <1>5. DayIsReported'
    BY <1>1, <1>3, <1>4 DEF DayIsReported
  <1>6. UniqueInv' /\ rows' \subseteq Inputs /\ skipped' \subseteq receipts
    BY <1>1, <1>2, <1>3, RunnerFacts DEF TypeOK
  <1>7. IInv'
    BY <1>1, <1>2, <1>3, <1>4, <1>5, <1>6, RunnerMoves
  <1> QED
    BY <1>1, <1>7 DEF AbstractStep, Abstract!vars
-----------------------------------------------------------------------------
(* Theorems *)

LEMMA InitIInv == Init => IInv /\ Abstract!Init
  <1> SUFFICES ASSUME Init PROVE IInv /\ Abstract!Init
    OBVIOUS
  <1> USE DEF Init
  <1>1. IdleCall \in Call /\ IdleCall.pc = "idle"
    BY IntakeAssumption DEF IdleCall, Call
  <1>2. \A x \in Callers : call[x] = IdleCall
    OBVIOUS
  <1>3. TypeOK
    BY <1>1, IntakeAssumption DEF TypeOK
  <1>4. UniqueInv /\ AnswerInv /\ DayIsReported
    BY DEF UniqueInv, AnswerInv, DayIsReported
  <1>5. \A c \in Clients : ClientInv(c)
    BY <1>1, <1>2 DEF ClientInv, Callers
  <1>6. \A x \in Runners : RunnerInv(x)
    BY <1>1, <1>2 DEF RunnerInv, Callers
  <1>7. \A x \in Callers : RaceInv(x)
    BY <1>1, <1>2 DEF RaceInv
  <1>8. Abstract!Init
    BY DEF Abstract!Init
  <1> QED
    BY <1>3, <1>4, <1>5, <1>6, <1>7, <1>8 DEF IInv

LEMMA NextIInv == IInv /\ [Next]_vars => IInv' /\ AbstractStep
  <1> SUFFICES ASSUME IInv, [Next]_vars PROVE IInv' /\ AbstractStep
    OBVIOUS
  <1>1. ASSUME NEW x \in Callers, Step(x) PROVE IInv' /\ AbstractStep
    BY <1>1, ClientStep, RunnerStep DEF Callers
  <1>2. ASSUME NEW c \in Clients, Arrive(c) \/ CallFails(c) PROVE IInv' /\ AbstractStep
    BY <1>2, ArriveStep, CallFailsStep
  <1>3. ASSUME NEW x \in Runners,
               StartDaily(x) \/ CheckReceipts(x) \/ TenantFails(x) \/ RunFails(x)
        PROVE  IInv' /\ AbstractStep
    BY <1>3, DailyStep
  <1>4. CASE NextDay \/ Restart
    BY <1>4, NextDayStep, RestartStep
  <1>5. CASE UNCHANGED vars
    <2>1. IInv'
      BY <1>5 DEF vars, IInv, TypeOK, UniqueInv, AnswerInv, DayIsReported, ClientInv,
                  RunnerInv, RaceInv, Unique, ByKey, ByRef, Abstract!Justified,
                  Abstract!SameKey, Abstract!SameRef
    <2> QED
      BY <1>5, <2>1 DEF vars, AbstractStep, Abstract!vars
  <1> QED
    BY <1>1, <1>2, <1>3, <1>4, <1>5 DEF Next

\* The inductive invariant holds.
THEOREM Invariance == Spec => []IInv
  BY InitIInv, NextIInv, PTL DEF Spec

\* The RCOF of every day with receipts is in the queue after the worker's run of
\* the next day, or its run met an error: rcofDaily with its deterministic key,
\* for any number of days, restarts and cron runs.
THEOREM DailyIsReported == Spec => []DayIsReported
  <1>1. IInv => DayIsReported
    BY DEF IInv
  <1> QED
    BY <1>1, Invariance, PTL

\* enqueue implements the idempotency rules for any number of concurrent calls.
THEOREM ImplementsIdempotent == Spec => IdempotentSpec
  <1>1. IInv /\ [Next]_vars => [Abstract!Next]_(Abstract!vars)
    BY NextIInv DEF AbstractStep
  <1>2. Init => Abstract!Init
    BY InitIInv
  <1> QED
    BY <1>1, <1>2, Invariance, PTL DEF Spec, IdempotentSpec, Abstract!Spec

\* A call and its repetition are both accepted or both refused, in any
\* interleaving of their enqueue.
THEOREM RepetitionsAgree == Spec => []RetriesAgree
  <1>1. IInv => RetriesAgree
    <2> SUFFICES ASSUME IInv, NEW c \in Clients, NEW d \in Clients, input[c] = input[d],
                        answer[c] = "accepted", answer[d] # "none"
                 PROVE  answer[d] = "accepted"
      BY DEF RetriesAgree
    <2>1. input[c] \in rows
      BY DEF IInv, AnswerInv, Abstract!Justified
    <2>2. answer[d] \in Abstract!Justified(input[c])
      BY DEF IInv, AnswerInv
    <2>3. PICK j \in rows :
            \/ answer[d] = "accepted"
            \/ SameKey(input[c], j) /\ input[c].body # j.body
            \/ SameRef(input[c], j) /\ ~SameKey(input[c], j)
      BY <2>2 DEF Abstract!Justified, SameKey, SameRef, Abstract!SameKey, Abstract!SameRef
    <2>4. SameKey(input[c], j) \/ SameRef(input[c], j) => j = input[c]
      BY <2>1 DEF IInv, UniqueInv
    <2> QED
      BY <2>3, <2>4 DEF SameKey
  <1> QED
    BY <1>1, Invariance, PTL
===============================================================================
